---- MODULE Spec2Model ----
(***************************************************************************)
(* End-to-end encrypted chat core: message cipher (src/lib/crypto.ts),     *)
(* identity key store, shared-secret cache and the ChatWindow session      *)
(* (src/components/chat/ChatSidebar.tsx, second component of the file).    *)
(*                                                                         *)
(* Strings are sequences of UTF-16 code units, byte arrays are sequences   *)
(* of 0..255, base64 text is a sequence of sextets 0..63 with 64 for '='.  *)
(* The two Web Crypto primitives are idealised in the standard way: the    *)
(* AES-GCM tag separates keys and detects every single-byte change of the  *)
(* nonce, the ciphertext and the tag; ECDH is Diffie-Hellman in a group of *)
(* prime order; crypto.getRandomValues never returns the same twelve bytes *)
(* twice (a collision of two 96-bit random values is taken as impossible). *)
(***************************************************************************)
EXTENDS Integers, Sequences, FiniteSets, TLC

\* ------------------------------------------------------------- bounds ----
MaxLen == 2          \* code units of a plaintext
NumKeys == 2         \* symmetric keys of the cipher specification
MaxNonce == 2        \* getRandomValues draws among MaxNonce + 1 nonces
MaxCalls == 2        \* encryptMessage calls of the cipher specification
MaxInit == 2         \* initializeEncryption calls on the first device
MaxSelect == 3       \* peer selections on the first device
MaxChatSelect == 2   \* the same, in the scenario with messages
MaxSend == 2         \* handleSendMessage calls on the first device
MaxAppend == 3       \* storeMessageLocally calls between two clears
MaxRecvSelect == 1   \* peer selections, in the scenario with arrivals
MaxPeerSend == 1     \* handleSendMessage calls of user 2, the same scenario
MaxReceive == 2      \* INSERT events handed to the first device
MaxForeign == 1      \* rows another client writes
MaxSwitch == 2       \* peer selections, in the scenario with a peer switch
MaxIdCalls == 2      \* getChatId calls of the identifier specification
MaxEcho == 2         \* handleNewMessage calls, in the scenario with an echo
MaxRows == 3         \* rows of the messages table, retention specification

\* --------------------------------------------------- program constants ----
IvLen == 12
TagLen == 16

REPLACEMENT == 65533
BOM == 65279

Strings(n) ==
  LET
    \* Code units the plaintexts are built from: 'a' (1 byte of UTF-8), e-acute
    \* (2 bytes), U+FEFF (3 bytes, the byte order mark), a high and a low
    \* surrogate (4 bytes as a pair, unpaired otherwise).
    CodeUnits == {97, 233, 65279, 55296, 56320}
  IN UNION {[1..k -> CodeUnits] : k \in 0..n}

\* ------------------------------------------------------- TextEncoder ----
IsHigh(c) == c >= 55296 /\ c <= 56319
IsLow(c) == c >= 56320 /\ c <= 57343
IsSurrogate(c) == IsHigh(c) \/ IsLow(c)

EncodeBmp(c) ==
  IF c < 128 THEN <<c>>
  ELSE IF c < 2048 THEN <<192 + (c \div 64), 128 + (c % 64)>>
  ELSE <<224 + (c \div 4096), 128 + ((c \div 64) % 64), 128 + (c % 64)>>

EncodePair(hi, lo) ==
  LET cp == 65536 + (hi - 55296) * 1024 + (lo - 56320)
  IN <<240 + (cp \div 262144), 128 + ((cp \div 4096) % 64),
       128 + ((cp \div 64) % 64), 128 + (cp % 64)>>

\* TextEncoder.encode: UTF-8 of the string, an unpaired surrogate encoded
\* as U+FFFD.
RECURSIVE TextEncode(_)
TextEncode(s) ==
  IF s = <<>> THEN <<>>
  ELSE IF IsHigh(s[1]) /\ Len(s) >= 2 /\ IsLow(s[2])
       THEN EncodePair(s[1], s[2]) \o TextEncode(SubSeq(s, 3, Len(s)))
  ELSE IF IsSurrogate(s[1])
       THEN EncodeBmp(REPLACEMENT) \o TextEncode(Tail(s))
  ELSE EncodeBmp(s[1]) \o TextEncode(Tail(s))

\* ------------------------------------------------------- TextDecoder ----
IsCont(b) == b >= 128 /\ b <= 191

RECURSIVE Utf8Decode(_)
Utf8Decode(b) ==
  IF b = <<>> THEN <<>>
  ELSE IF b[1] < 128 THEN <<b[1]>> \o Utf8Decode(Tail(b))
  ELSE IF b[1] >= 194 /\ b[1] <= 223 /\ Len(b) >= 2 /\ IsCont(b[2])
       THEN <<(b[1] - 192) * 64 + (b[2] - 128)>>
            \o Utf8Decode(SubSeq(b, 3, Len(b)))
  ELSE IF b[1] >= 224 /\ b[1] <= 239 /\ Len(b) >= 3 /\ IsCont(b[2])
          /\ IsCont(b[3])
          /\ (b[1] - 224) * 4096 + (b[2] - 128) * 64 + (b[3] - 128) >= 2048
          /\ ~IsSurrogate((b[1] - 224) * 4096 + (b[2] - 128) * 64
                          + (b[3] - 128))
       THEN <<(b[1] - 224) * 4096 + (b[2] - 128) * 64 + (b[3] - 128)>>
            \o Utf8Decode(SubSeq(b, 4, Len(b)))
  ELSE IF b[1] >= 240 /\ b[1] <= 244 /\ Len(b) >= 4 /\ IsCont(b[2])
          /\ IsCont(b[3]) /\ IsCont(b[4])
          /\ (b[1] - 240) * 262144 + (b[2] - 128) * 4096
             + (b[3] - 128) * 64 + (b[4] - 128) >= 65536
          /\ (b[1] - 240) * 262144 + (b[2] - 128) * 4096
             + (b[3] - 128) * 64 + (b[4] - 128) <= 1114111
       THEN LET cp == (b[1] - 240) * 262144 + (b[2] - 128) * 4096
                      + (b[3] - 128) * 64 + (b[4] - 128)
            IN <<55296 + ((cp - 65536) \div 1024),
                 56320 + ((cp - 65536) % 1024)>>
               \o Utf8Decode(SubSeq(b, 5, Len(b)))
  ELSE <<REPLACEMENT>> \o Utf8Decode(Tail(b))

\* new TextDecoder().decode: UTF-8, not fatal, ignoreBOM false: a leading
\* byte order mark is removed from the output.
TextDecode(b) ==
  LET s == Utf8Decode(b)
  IN IF s # <<>> /\ s[1] = BOM THEN Tail(s) ELSE s

\* ------------------------------------------------------- btoa / atob ----
PAD == 64

\* btoa(String.fromCharCode(...bytes)): three bytes to four sextets, the
\* last group padded with '='.
RECURSIVE btoa(_)
btoa(b) ==
  IF b = <<>> THEN <<>>
  ELSE IF Len(b) = 1
       THEN <<b[1] \div 4, (b[1] % 4) * 16, PAD, PAD>>
  ELSE IF Len(b) = 2
       THEN <<b[1] \div 4, (b[1] % 4) * 16 + (b[2] \div 16),
              (b[2] % 16) * 4, PAD>>
  ELSE <<b[1] \div 4, (b[1] % 4) * 16 + (b[2] \div 16),
         (b[2] % 16) * 4 + (b[3] \div 64), b[3] % 64>>
       \o btoa(SubSeq(b, 4, Len(b)))

StripPadding(t) ==
  IF Len(t) % 4 = 0 /\ Len(t) >= 2 /\ t[Len(t)] = PAD /\ t[Len(t) - 1] = PAD
  THEN SubSeq(t, 1, Len(t) - 2)
  ELSE IF Len(t) % 4 = 0 /\ Len(t) >= 1 /\ t[Len(t)] = PAD
  THEN SubSeq(t, 1, Len(t) - 1)
  ELSE t

RECURSIVE DecodeSextets(_)
DecodeSextets(t) ==
  IF Len(t) < 2 THEN <<>>
  ELSE IF Len(t) = 2 THEN <<t[1] * 4 + (t[2] \div 16)>>
  ELSE IF Len(t) = 3
       THEN <<t[1] * 4 + (t[2] \div 16), (t[2] % 16) * 16 + (t[3] \div 4)>>
  ELSE <<t[1] * 4 + (t[2] \div 16), (t[2] % 16) * 16 + (t[3] \div 4),
         (t[3] % 4) * 64 + t[4]>>
       \o DecodeSextets(SubSeq(t, 5, Len(t)))

\* atob (forgiving base64 decode) followed by Uint8Array.from: the bytes,
\* or an exception when the text is not base64.
atob(t) ==
  LET u == StripPadding(t)
  IN IF Len(u) % 4 = 1 \/ \E i \in 1..Len(u) : u[i] = PAD
     THEN [ok |-> FALSE, bytes |-> <<>>]
     ELSE [ok |-> TRUE, bytes |-> DecodeSextets(u)]

\* ----------------------------------------------------------- AES-GCM ----
RECURSIVE WeightedSum(_, _)
WeightedSum(b, j) ==
  IF b = <<>> THEN 0 ELSE (2 * j - 1) * b[1] + WeightedSum(Tail(b), j + 1)

\* Key stream byte i of the counter mode under key k and nonce iv.
KeyStream(k, iv, i) == (29 * k + 13 * i + WeightedSum(iv, 1)) % 256

\* The authentication tag over nonce and ciphertext under key k.
GcmTag(k, iv, ct) ==
  [i \in 1..TagLen |->
     (41 * k + 3 * i + 5 * WeightedSum(iv, 1) + WeightedSum(ct, 1)
      + Len(ct)) % 256]

\* crypto.subtle.encrypt({name: 'AES-GCM', iv}, key, data): ciphertext
\* followed by the tag.
AesGcmEncrypt(k, iv, data) ==
  LET ct == [i \in 1..Len(data) |-> (data[i] + KeyStream(k, iv, i)) % 256]
  IN ct \o GcmTag(k, iv, ct)

\* crypto.subtle.decrypt: the data when the tag verifies, an OperationError
\* otherwise.
AesGcmDecrypt(k, iv, enc) ==
  IF Len(enc) < TagLen THEN [ok |-> FALSE, bytes |-> <<>>]
  ELSE LET ct == SubSeq(enc, 1, Len(enc) - TagLen)
           tag == SubSeq(enc, Len(enc) - TagLen + 1, Len(enc))
       IN IF tag # GcmTag(k, iv, ct) THEN [ok |-> FALSE, bytes |-> <<>>]
          ELSE [ok |-> TRUE,
                bytes |-> [i \in 1..Len(ct) |->
                             (ct[i] + 256 - KeyStream(k, iv, i)) % 256]]

\* ------------------------------------------------- the message cipher ----
\* Uint8Array.prototype.slice(from, to): zero-based, end exclusive, clamped.
slice(b, from, to) ==
  LET hi == IF to < Len(b) THEN to ELSE Len(b)
  IN IF from >= hi THEN <<>> ELSE SubSeq(b, from + 1, hi)

\* Mutant: the text is encoded but not encrypted.
encryptMessagePlain(message, sharedKey, iv) == btoa(TextEncode(message))

\* Mutant: the nonce is a constant instead of the random value drawn.
encryptMessageFixedIv(message, sharedKey, iv) ==
  LET data == TextEncode(message)
      zero == [i \in 1..IvLen |-> 0]
  IN btoa(zero \o AesGcmEncrypt(sharedKey, zero, data))

\* encryptMessage with iv the value crypto.getRandomValues returned.
encryptMessage(message, sharedKey, iv) ==
  LET data == TextEncode(message)
      encryptedData == AesGcmEncrypt(sharedKey, iv, data)
      combined == iv \o encryptedData
  IN btoa(combined)

DecryptionFailed == [ok |-> FALSE, text |-> <<>>]

\* Mutant: the catch block hands back the input instead of throwing.
decryptMessageFallback(encryptedMessage, sharedKey) ==
  LET decoded == atob(encryptedMessage)
      decryptedData == AesGcmDecrypt(sharedKey, slice(decoded.bytes, 0, IvLen),
                                     slice(decoded.bytes, IvLen,
                                           Len(decoded.bytes)))
  IN IF ~decoded.ok \/ ~decryptedData.ok
     THEN [ok |-> TRUE, text |-> encryptedMessage]
     ELSE [ok |-> TRUE, text |-> TextDecode(decryptedData.bytes)]

\* Mutant: the data is deciphered without verifying the tag.
decryptMessageBestEffort(encryptedMessage, sharedKey) ==
  LET decoded == atob(encryptedMessage)
      combined == decoded.bytes
      encryptedData == slice(combined, IvLen, Len(combined))
      ct == slice(encryptedData, 0, Len(encryptedData) - TagLen)
  IN IF ~decoded.ok \/ Len(encryptedData) < TagLen THEN DecryptionFailed
     ELSE [ok |-> TRUE,
           text |-> TextDecode([i \in 1..Len(ct) |->
                      (ct[i] + 256
                       - KeyStream(sharedKey, slice(combined, 0, IvLen), i))
                      % 256])]

decryptMessage(encryptedMessage, sharedKey) ==
  LET decoded == atob(encryptedMessage)
  IN IF ~decoded.ok THEN DecryptionFailed
     ELSE LET combined == decoded.bytes
              iv == slice(combined, 0, IvLen)
              encryptedData == slice(combined, IvLen, Len(combined))
              decryptedData == AesGcmDecrypt(sharedKey, iv, encryptedData)
          IN IF ~decryptedData.ok THEN DecryptionFailed
             ELSE [ok |-> TRUE, text |-> TextDecode(decryptedData.bytes)]

\* ------------------------------------------------------ key agreement ----
\* The group of the key agreement: the subgroup of prime order 23 that
\* DhG generates in the integers modulo DhP.
DhP == 47
DhG == 2

RECURSIVE Pow(_, _)
Pow(b, e) == IF e = 0 THEN 1 ELSE (b * Pow(b, e - 1)) % DhP

\* The private scalar of the n-th key pair generateKey produces: a random
\* value no other pair has.
Scalar(n) == <<2, 3, 5, 7, 13>>[n]

NoPair == [publicKey |-> [kty |-> "none", crv |-> "", x |-> 0],
           privateKey |-> [kty |-> "none", crv |-> "", d |-> 0, x |-> 0]]

\* Mutant: the exported public key carries the private scalar.
generateKeyPairExposed(n) ==
  [publicKey |-> [kty |-> "EC", crv |-> "P-384", x |-> Scalar(n)],
   privateKey |-> [kty |-> "EC", crv |-> "P-384", d |-> Scalar(n),
                   x |-> Pow(DhG, Scalar(n))]]

\* generateKeyPair: an ECDH P-384 pair exported as two JSON Web Keys.
generateKeyPair(n) ==
  [publicKey |-> [kty |-> "EC", crv |-> "P-384", x |-> Pow(DhG, Scalar(n))],
   privateKey |-> [kty |-> "EC", crv |-> "P-384", d |-> Scalar(n),
                   x |-> Pow(DhG, Scalar(n))]]

\* JSON.stringify of a public JSON Web Key, and JSON.parse of profile text.
stringify(jwk) == <<jwk.crv, jwk.kty, jwk.x>>
parse(text) == [kty |-> text[2], crv |-> text[1], x |-> text[3]]

NoProfileKey == <<>>
NoKey == 0

\* JSON.parse throws on a profile text that is not JSON: in the model, a
\* text that is not the three members stringify writes.
IsJson(text) == Len(text) = 3

\* importKey('jwk', ..., {name: 'ECDH', namedCurve: 'P-384'}) accepts the
\* key: an EC key of that curve whose point is on it.
Importable(jwk) ==
  /\ jwk.kty = "EC" /\ jwk.crv = "P-384"
  /\ \E e \in 1..22 : jwk.x = Pow(DhG, e)

\* What deriveSharedKey yields when importKey throws.
KeyAgreementFailed == -1

\* Mutant: the key is derived from the caller's own public point.
deriveSharedKeyOwn(privateKeyJwk, publicKeyJwk) ==
  Pow(privateKeyJwk.x, privateKeyJwk.d)

\* Mutant: the peer's key is used without being imported.
deriveSharedKeyLenient(privateKeyJwk, publicKeyJwk) ==
  Pow(publicKeyJwk.x, privateKeyJwk.d)

\* deriveSharedKey: the AES-GCM key agreed from a private and a public key.
deriveSharedKey(privateKeyJwk, publicKeyJwk) ==
  IF ~Importable(publicKeyJwk) THEN KeyAgreementFailed
  ELSE Pow(publicKeyJwk.x, privateKeyJwk.d)

\* crypto.subtle.exportKey('jwk', sharedKey) as cacheSharedKey stores it, and
\* the importKey of getCachedSharedKey.
exportKey(sharedKey) == [kty |-> "oct", k |-> sharedKey]
importKey(jwk) == jwk.k

NoEntry == [kty |-> "none", k |-> 0]

\* ------------------------------------------------------------- state ----
VARIABLES
  cKey,        \* cipher specification: the key K of the calls
  cMsg,        \* cipher specification: the plaintext P of the calls
  encCalls,    \* the encryptMessage(P, K) calls so far: nonce drawn, blob
  decCall,     \* the last decryptMessage call: blob, key, result
  drawn,       \* the values crypto.getRandomValues has returned
  keyStore,    \* per device: IndexedDB 'keys' under CRYPTO_KEY_PAIR_STORAGE_KEY
  sharedKeys,  \* per device: IndexedDB 'sharedKeys', by peer id
  directory,   \* profiles.public_key, by user id
  remote,      \* the rows of the remote messages table, in insert order
  localStore,  \* per device: IndexedDB 'messages', the set of records
  myKeyPairRef,      \* per device: ChatWindow's myKeyPairRef.current
  sharedKeyRef,      \* per device: ChatWindow's sharedKeyRef.current
  encryptionReady,   \* per device: ChatWindow's encryptionReady
  selectedUser,      \* per device: the selectedUser prop, 0 for null
  messages,          \* per device: ChatWindow's messages list
  initCalls,   \* per device: the initializeEncryption calls, by start order
  setupCalls,  \* per device: the setupSharedKey calls, by start order
  sendCalls,   \* per device: the handleSendMessage calls, by start order
  selections,  \* per device: peer selections made so far
  keysGenerated,     \* key pairs generateKeyPair has produced
  nextId,      \* identifiers (randomUUID, row ids) handed out so far
  harness,     \* the scenario explored: which calls may start, how often
  channels,    \* per device: the realtime subscriptions, by start order
  events,      \* the INSERT events handed to a subscription's callback
  recvCalls,   \* per device: the handleNewMessage calls, by start order
  loadCalls,   \* per device: the loadMessages calls, by start order
  appended,    \* store specification: the messages put since the last clear
  cleared,     \* store specification: what the last clearLocalMessages did
  listed,      \* store specification: the last getLocalMessages call
  idCalls,     \* the getChatId calls made: the two ids and the result
  now,         \* the clock of the database server, in milliseconds
  purged       \* the rows the retention functions deleted: row, time, function

cipherVars == <<cKey, cMsg, encCalls, decCall>>

storeVars == <<keyStore, sharedKeys, directory, remote, localStore>>

windowVars ==
  <<myKeyPairRef, sharedKeyRef, encryptionReady, selectedUser, messages>>

recvVars == <<channels, events, recvCalls, loadCalls>>

callVars == <<initCalls, setupCalls, sendCalls, selections, keysGenerated,
              nextId, harness, recvVars>>

listVars == <<appended, cleared, listed, idCalls>>

cronVars == <<now, purged>>

sessionVars == <<storeVars, windowVars, callVars, listVars, cronVars>>

vars == <<cipherVars, drawn, sessionVars>>

Users == {1, 2, 3}
NoUser == 0

\* What the user may type into the message box.
Texts == {<<97>>, <<32>>}

\* The state of every session variable when the application is first opened.
SessionStart ==
  /\ keyStore = [d \in Users |-> NoPair]
  /\ sharedKeys = [d \in Users |-> [p \in Users |-> NoEntry]]
  /\ directory = [u \in Users |-> NoProfileKey]
  /\ remote = <<>>
  /\ localStore = [d \in Users |-> {}]
  /\ myKeyPairRef = [d \in Users |-> NoPair]
  /\ sharedKeyRef = [d \in Users |-> NoKey]
  /\ encryptionReady = [d \in Users |-> FALSE]
  /\ selectedUser = [d \in Users |-> NoUser]
  /\ messages = [d \in Users |-> <<>>]
  /\ initCalls = [d \in Users |-> <<>>]
  /\ setupCalls = [d \in Users |-> <<>>]
  /\ sendCalls = [d \in Users |-> <<>>]
  /\ selections = [d \in Users |-> 0]
  /\ keysGenerated = 0
  /\ nextId = 0
  /\ channels = [d \in Users |-> <<>>]
  /\ events = {}
  /\ recvCalls = [d \in Users |-> <<>>]
  /\ loadCalls = [d \in Users |-> <<>>]

\* The scenarios explored.  Device 1 is the device under study: its calls
\* interleave in every way the scenario allows.  User 2 opens the
\* application once on a device of their own; user 3 never opens it.  A
\* handler on another device touches the shared directory and message table
\* once, so it is run to its end before anything else moves.
\*   KeysScenario: key management, calls of one handler may overlap.
\*   KeysSeqScenario: key management, one call of a handler after another;
\*     user 2 selects a peer too.
\*   ChatScenario: one initializeEncryption per device, messages are sent.
\*   LiveScenario: as ChatScenario, with one selection and one message.
\*   SwitchScenario: the first device selects one peer and then another,
\*     and a message of user 2 arrives.
\*   RekeyScenario: key management on the first device while user 2 opens
\*     the application on a second device.
\*   ReceiveScenario: messages arrive on the first device; user 3 uses
\*     another client, which publishes a key this application cannot use
\*     and writes rows of its own; key generation and IndexedDB may fail
\*     on the first device; the other users act while the first device
\*     has no handler under way.
KeysScenario ==
  [overlap |-> TRUE, inits |-> <<MaxInit, 1, 0>>,
   selects |-> <<MaxSelect, 0, 0>>, sends |-> <<0, 0, 0>>,
   receives |-> 0, foreign |-> 0, failures |-> {}, quiet |-> FALSE,
   rekeys |-> 0]

StoreScenario ==
  [overlap |-> FALSE, inits |-> <<0, 0, 0>>,
   selects |-> <<0, 0, 0>>, sends |-> <<0, 0, 0>>,
   receives |-> 0, foreign |-> 0, failures |-> {}, quiet |-> FALSE,
   rekeys |-> 0]

NoList == [chatId |-> <<>>, result |-> <<>>, called |-> FALSE]

\* The store specification has not begun; the server clock stands at the
\* start and the retention functions have not run.
StoreIdle ==
  /\ appended = <<>> /\ cleared = "never" /\ listed = NoList
  /\ idCalls = {}
  /\ now = 0 /\ purged = {}

InitBudget(d) == harness.inits[d]
SelectBudget(d) == harness.selects[d]
SendBudget(d) == harness.sends[d]

\* crypto.getRandomValues(new Uint8Array(12)): one of MaxNonce + 1 values.
RandomValues == {[i \in 1..IvLen |-> (97 * n + 11 * i) % 256] : n \in 0..MaxNonce}

\* The value of the next call in the session scenarios, where which of the
\* unused values is drawn makes no difference.
getRandomValues == CHOOSE iv \in RandomValues \ drawn : TRUE

NoCall == [kind |-> "none", blob |-> <<>>, key |-> 0, out |-> DecryptionFailed]

\* The cipher and store specifications have not begun.
CipherIdle ==
  /\ cKey = 1 /\ cMsg = <<>> /\ encCalls = <<>> /\ decCall = NoCall
  /\ drawn = {}
  /\ StoreIdle

CipherInit ==
  /\ cKey \in 1..NumKeys
  /\ cMsg \in Strings(MaxLen)
  /\ encCalls = <<>>
  /\ decCall = NoCall
  /\ drawn = {}
  /\ SessionStart
  /\ StoreIdle
  /\ harness = KeysScenario

\* One call encryptMessage(cMsg, cKey).
CipherEncrypt ==
  /\ decCall = NoCall
  /\ Len(encCalls) < MaxCalls
  /\ \E iv \in RandomValues \ drawn :
       /\ drawn' = drawn \cup {iv}
       /\ encCalls' = Append(encCalls,
                             [iv |-> iv,
                              blob |-> encryptMessage(cMsg, cKey, iv)])
  /\ UNCHANGED <<cKey, cMsg, decCall, sessionVars>>

\* decryptMessage of the blob of the first call, under any key.
CipherDecrypt ==
  /\ decCall = NoCall /\ Len(encCalls) = 1
  /\ \E k \in 1..NumKeys :
       decCall' = [kind |-> IF k = cKey THEN "same" ELSE "wrong",
                   blob |-> encCalls[1].blob, key |-> k,
                   out |-> decryptMessage(encCalls[1].blob, k)]
  /\ UNCHANGED <<cKey, cMsg, encCalls, drawn, sessionVars>>

\* decryptMessage, under the right key, of the blob of the first call with
\* one byte changed.
CipherDecryptTampered ==
  LET
    \* The blob with byte pos of nonce, ciphertext or tag changed.
    Tampered(blob, pos, d) ==
      LET bytes == atob(blob).bytes
      IN btoa([bytes EXCEPT ![pos] = (@ + d) % 256])
    \* What a single changed byte becomes: the byte plus one of these, mod 256.
    TamperDeltas == {1, 128}
  IN
  /\ decCall = NoCall /\ Len(encCalls) = 1
  /\ \E d \in TamperDeltas :
       \E pos \in 1..Len(atob(encCalls[1].blob).bytes) :
         LET t == Tampered(encCalls[1].blob, pos, d)
         IN decCall' = [kind |-> "tampered", blob |-> t, key |-> cKey,
                        out |-> decryptMessage(t, cKey)]
  /\ UNCHANGED <<cKey, cMsg, encCalls, drawn, sessionVars>>

CipherNext == CipherEncrypt \/ CipherDecrypt \/ CipherDecryptTampered

SpecCipher == CipherInit /\ [][CipherNext]_vars

\* ------------------------------------------------------ the session ----
\* Mutant: the pair is looked up under another key than it is stored under.
getKeyPairOtherSlot(d) == NoPair

\* getKeyPair: request.result || null of the key-pair slot.
getKeyPair(d) == keyStore[d]

\* Mutant: the entry is looked up under the local user's id.
getCachedSharedKeyOwnId(d, userId) == sharedKeys[d][d]

\* getCachedSharedKey: the entry stored under the peer's id, if any.
getCachedSharedKey(d, userId) == sharedKeys[d][userId]

\* A call is under way: it has not returned and still has a continuation to
\* run ("hung": it awaits a promise that is never settled).
Running(calls) == \E i \in DOMAIN calls : calls[i].pc \notin {"done", "hung"}

Busy(d) ==
  Running(initCalls[d]) \/ Running(setupCalls[d]) \/ Running(sendCalls[d])

\* Device d may take a step: no handler of another device than d and 1 is
\* under way.
MayStep(d) == \A e \in Users \ {1, d} : ~Busy(e)
MayStart(d) ==
  /\ \A e \in Users \ {1} : ~Busy(e)
  /\ (harness.quiet /\ d # 1) => ~Busy(1)

\* useEffect([currentUserId]): initializeEncryption starts and awaits
\* getKeyPair.
initializeEncryption(d) ==
  /\ MayStart(d)
  /\ Len(initCalls[d]) < InitBudget(d)
  /\ harness.overlap \/ ~Running(initCalls[d])
  /\ initCalls' = [initCalls EXCEPT ![d] =
                     Append(@, [pc |-> "get", keyPair |-> NoPair,
                                generated |-> FALSE, ok |-> FALSE,
                                failure |-> ""])]
  /\ UNCHANGED <<cipherVars, listVars, cronVars, recvVars, drawn, storeVars, windowVars, setupCalls,
                 sendCalls, selections, keysGenerated, nextId, harness>>

\* getKeyPair resolves.  A stored pair is taken as it is; otherwise a new
\* pair is generated and storeKeyPair awaited.
InitGetKeyPair(d, i) ==
  /\ MayStep(d)
  /\ initCalls[d][i].pc = "get"
  /\ IF getKeyPair(d) # NoPair
     THEN /\ myKeyPairRef' = [myKeyPairRef EXCEPT ![d] = getKeyPair(d)]
          /\ encryptionReady' = [encryptionReady EXCEPT ![d] = TRUE]
          /\ initCalls' = [initCalls EXCEPT ![d][i] =
                             [@ EXCEPT !.pc = "done",
                                       !.keyPair = getKeyPair(d),
                                       !.ok = TRUE]]
          /\ UNCHANGED keysGenerated
     ELSE /\ keysGenerated < Len(<<2, 3, 5, 7, 13>>)
          /\ \E thrown \in {FALSE, (d \in harness.failures)} :
               IF thrown
               THEN /\ initCalls' = [initCalls EXCEPT ![d][i] =
                                       [@ EXCEPT !.pc = "done",
                                                 !.failure = "generate"]]
                    /\ UNCHANGED keysGenerated
               ELSE /\ keysGenerated' = keysGenerated + 1
                    /\ initCalls' = [initCalls EXCEPT ![d][i] =
                                       [@ EXCEPT !.pc = "store",
                                                 !.generated = TRUE,
                                                 !.keyPair = generateKeyPair(
                                                     keysGenerated + 1)]]
          /\ UNCHANGED <<myKeyPairRef, encryptionReady>>
  /\ UNCHANGED <<cipherVars, listVars, cronVars, recvVars, drawn, storeVars, sharedKeyRef, selectedUser,
                 messages, setupCalls, sendCalls, selections, nextId, harness>>

\* How a readwrite transaction whose promise listens to oncomplete and
\* onerror only may end: it commits; a request fails and its error event
\* reaches the transaction, which rejects the promise; or the commit fails
\* and the transaction is aborted, which fires abort alone and leaves the
\* promise unsettled.
TxOutcomes(d) ==
  IF d \in harness.failures THEN {"complete", "error", "abort"}
  ELSE {"complete"}

\* storeKeyPair: the put under the key-pair slot commits, or fails.
storeKeyPair(d, i) ==
  /\ MayStep(d)
  /\ initCalls[d][i].pc = "store"
  /\ \E outcome \in TxOutcomes(d) :
       IF outcome = "complete"
       THEN /\ keyStore' = [keyStore EXCEPT ![d] = initCalls[d][i].keyPair]
            /\ initCalls' = [initCalls EXCEPT ![d][i].pc = "publish"]
       ELSE /\ UNCHANGED keyStore
            /\ initCalls' = [initCalls EXCEPT ![d][i] =
                               IF outcome = "error"
                               THEN [@ EXCEPT !.pc = "done",
                                              !.failure = "store"]
                               ELSE [@ EXCEPT !.pc = "hung",
                                              !.failure = "abort"]]
  /\ UNCHANGED <<cipherVars, listVars, cronVars, recvVars, drawn, sharedKeys, directory, remote, localStore,
                 windowVars, setupCalls, sendCalls, selections, keysGenerated,
                 nextId, harness>>

\* The profiles update of the public key: applied, or answered with an
\* error, which initializeEncryption throws and its catch reports.
InitPublish(d, i) ==
  /\ MayStep(d)
  /\ initCalls[d][i].pc = "publish"
  /\ \E error \in BOOLEAN :
       IF error
       THEN /\ initCalls' = [initCalls EXCEPT ![d][i].pc = "done"]
            /\ UNCHANGED directory
       ELSE /\ directory' = [directory EXCEPT ![d] =
                               stringify(initCalls[d][i].keyPair.publicKey)]
            /\ initCalls' = [initCalls EXCEPT ![d][i].pc = "assign"]
  /\ UNCHANGED <<cipherVars, listVars, cronVars, recvVars, drawn, keyStore, sharedKeys, remote, localStore,
                 windowVars, setupCalls, sendCalls, selections, keysGenerated,
                 nextId, harness>>

\* The update has resolved without error: the pair becomes the session's.
InitAssign(d, i) ==
  /\ MayStep(d)
  /\ initCalls[d][i].pc = "assign"
  /\ myKeyPairRef' = [myKeyPairRef EXCEPT ![d] = initCalls[d][i].keyPair]
  /\ encryptionReady' = [encryptionReady EXCEPT ![d] = TRUE]
  /\ initCalls' = [initCalls EXCEPT ![d][i] =
                     [@ EXCEPT !.pc = "done", !.ok = TRUE]]
  /\ UNCHANGED <<cipherVars, listVars, cronVars, recvVars, drawn, storeVars, sharedKeyRef, selectedUser,
                 messages, setupCalls, sendCalls, selections, keysGenerated,
                 nextId, harness>>

\* setupSharedKey up to its first await: nothing is done without a selected
\* user and a key pair.
setupSharedKey(d, p) ==
  IF p = NoUser \/ myKeyPairRef[d] = NoPair
  THEN [pc |-> "done", peer |-> p, sharedKey |-> NoKey, queried |-> FALSE,
        derived |-> FALSE, result |-> "missing"]
  ELSE [pc |-> "cache", peer |-> p, sharedKey |-> NoKey, queried |-> FALSE,
        derived |-> FALSE, result |-> ""]

\* subscribeToMessages: a channel whose callback sees the rows inserted
\* from now on and keeps the peer selected when it was made.
subscribeToMessages(p) == [peer |-> p, since |-> Len(remote)]

\* loadMessages up to its await of getLocalMessages.
loadMessages(p) == [pc |-> "get", peer |-> p]

\* The user picks another peer in the sidebar; the effect on selectedUser
\* calls loadMessages, setupSharedKey and subscribeToMessages.
SelectUser(d, p) ==
  /\ MayStart(d)
  /\ p # d /\ p # selectedUser[d]
  /\ selections[d] < SelectBudget(d)
  /\ harness.overlap \/ ~Running(setupCalls[d])
  /\ selectedUser' = [selectedUser EXCEPT ![d] = p]
  /\ selections' = [selections EXCEPT ![d] = @ + 1]
  /\ loadCalls' = [loadCalls EXCEPT ![d] = Append(@, loadMessages(p))]
  /\ setupCalls' = [setupCalls EXCEPT ![d] = Append(@, setupSharedKey(d, p))]
  /\ channels' = [channels EXCEPT ![d] = Append(@, subscribeToMessages(p))]
  /\ UNCHANGED <<cipherVars, listVars, cronVars, drawn, storeVars, myKeyPairRef,
                 sharedKeyRef, encryptionReady, messages, initCalls,
                 sendCalls, keysGenerated, nextId, harness, events, recvCalls>>

\* getCachedSharedKey resolves: a cached entry is imported and becomes the
\* session's key; without one the peer's profile is asked for.
SetupGetCached(d, i) ==
  /\ MayStep(d)
  /\ setupCalls[d][i].pc = "cache"
  /\ LET entry == getCachedSharedKey(d, setupCalls[d][i].peer)
     IN IF entry # NoEntry
        THEN /\ sharedKeyRef' = [sharedKeyRef EXCEPT ![d] = importKey(entry)]
             /\ setupCalls' = [setupCalls EXCEPT ![d][i] =
                                 [@ EXCEPT !.pc = "done",
                                           !.sharedKey = importKey(entry),
                                           !.result = "cached"]]
        ELSE /\ setupCalls' = [setupCalls EXCEPT ![d][i].pc = "fetch"]
             /\ UNCHANGED sharedKeyRef
  /\ UNCHANGED <<cipherVars, listVars, cronVars, recvVars, drawn, storeVars, myKeyPairRef, encryptionReady,
                 selectedUser, messages, initCalls, sendCalls, selections,
                 keysGenerated, nextId, harness>>

\* The profile query resolves: with an error, without a public key, or with
\* one, from which the shared key is derived unless JSON.parse or
\* deriveSharedKey throws.
SetupFetch(d, i) ==
  /\ MayStep(d)
  /\ setupCalls[d][i].pc = "fetch"
  /\ \E error \in BOOLEAN :
       LET public_key == directory[setupCalls[d][i].peer]
       IN setupCalls' = [setupCalls EXCEPT ![d][i] =
            IF error
            THEN [@ EXCEPT !.pc = "done", !.queried = TRUE,
                           !.result = "error"]
            ELSE IF public_key = NoProfileKey
            THEN [@ EXCEPT !.pc = "done", !.queried = TRUE,
                           !.result = "nopeerkey"]
            ELSE IF ~IsJson(public_key)
            THEN [@ EXCEPT !.pc = "done", !.queried = TRUE,
                           !.result = "keyerror"]
            ELSE IF deriveSharedKey(myKeyPairRef[d].privateKey,
                                    parse(public_key)) = KeyAgreementFailed
            THEN [@ EXCEPT !.pc = "done", !.queried = TRUE, !.derived = TRUE,
                           !.result = "keyerror"]
            ELSE [@ EXCEPT !.pc = "put", !.queried = TRUE, !.derived = TRUE,
                           !.sharedKey =
                             deriveSharedKey(myKeyPairRef[d].privateKey,
                                             parse(public_key))]]
  /\ UNCHANGED <<cipherVars, listVars, cronVars, recvVars, drawn, storeVars, windowVars, initCalls,
                 sendCalls, selections, keysGenerated, nextId, harness>>

\* cacheSharedKey: the put under the peer's id commits.
cacheSharedKey(d, i) ==
  /\ MayStep(d)
  /\ setupCalls[d][i].pc = "put"
  /\ sharedKeys' = [sharedKeys EXCEPT ![d][setupCalls[d][i].peer] =
                      exportKey(setupCalls[d][i].sharedKey)]
  /\ setupCalls' = [setupCalls EXCEPT ![d][i].pc = "assign"]
  /\ UNCHANGED <<cipherVars, listVars, cronVars, recvVars, drawn, keyStore, directory, remote, localStore,
                 windowVars, initCalls, sendCalls, selections, keysGenerated,
                 nextId, harness>>

\* cacheSharedKey has resolved: the derived key becomes the session's key.
SetupAssign(d, i) ==
  /\ MayStep(d)
  /\ setupCalls[d][i].pc = "assign"
  /\ sharedKeyRef' = [sharedKeyRef EXCEPT ![d] = setupCalls[d][i].sharedKey]
  /\ setupCalls' = [setupCalls EXCEPT ![d][i] =
                      [@ EXCEPT !.pc = "done", !.result = "derived"]]
  /\ UNCHANGED <<cipherVars, listVars, cronVars, recvVars, drawn, storeVars, myKeyPairRef, encryptionReady,
                 selectedUser, messages, initCalls, sendCalls, selections,
                 keysGenerated, nextId, harness>>

\* User u opens the application on another device, where no key pair is
\* stored: initializeEncryption there generates a pair and replaces the
\* public key of the profile.
OtherDeviceInit(u) ==
  LET
    \* The users whose profile carries a key of another device than the one
    \* of the model.
    Rekeyed ==
      {r \in Users : directory[r] \notin {NoProfileKey,
                                           stringify(keyStore[r].publicKey)}}
  IN
  /\ MayStart(u)
  /\ Cardinality(Rekeyed) < harness.rekeys
  /\ directory[u] = stringify(keyStore[u].publicKey)
  /\ keyStore[u] # NoPair
  /\ keysGenerated < Len(<<2, 3, 5, 7, 13>>)
  /\ keysGenerated' = keysGenerated + 1
  /\ directory' = [directory EXCEPT ![u] =
                     stringify(generateKeyPair(keysGenerated + 1).publicKey)]
  /\ UNCHANGED <<cipherVars, listVars, cronVars, recvVars, drawn, keyStore, sharedKeys,
                 remote, localStore, windowVars, initCalls, setupCalls,
                 sendCalls, selections, nextId, harness>>

\* ---------------------------------------------------- message storage ----
\* The user id as the string the profile carries.
IdOf(u) == <<48 + u>>

\* a < b in the order of Array.prototype.sort: by UTF-16 code units.
RECURSIVE LexLess(_, _)
LexLess(a, b) ==
  IF b = <<>> THEN FALSE
  ELSE IF a = <<>> THEN TRUE
  ELSE IF a[1] # b[1] THEN a[1] < b[1]
  ELSE LexLess(Tail(a), Tail(b))

\* Mutant: the two ids are joined in the order given.
getChatIdUnsorted(userId1, userId2) == userId1 \o <<95>> \o userId2

\* getChatId: [userId1, userId2].sort().join('_').
getChatId(userId1, userId2) ==
  IF LexLess(userId2, userId1)
  THEN userId2 \o <<95>> \o userId1
  ELSE userId1 \o <<95>> \o userId2

\* A row id of the messages table, or crypto.randomUUID(): the n-th one.
Uuid(n) == <<96 + n>>

\* new Date(t).toISOString() for the instant t in milliseconds, and
\* new Date(created_at).getTime().
toISOString(t) == [s |-> t \div 1000, ms |-> t % 1000]
getTime(created_at) == 1000 * created_at.s + created_at.ms

\* Mutant: add is used where put is.
storeMessageLocallyAdd(store, message) ==
  IF \E m \in store : m.id = message.id THEN store ELSE store \cup {message}

\* storeMessageLocally: put into the object store whose key path is id.
storeMessageLocally(store, message) ==
  {m \in store : m.id # message.id} \cup {message}

\* The order of two records in the result of getLocalMessages: by getTime
\* of created_at, and among equal times (the sort is stable) the order in
\* which index.getAll delivers them, ascending by primary key.
ListedBefore(a, b) ==
  \/ getTime(a.created_at) < getTime(b.created_at)
  \/ getTime(a.created_at) = getTime(b.created_at) /\ LexLess(a.id, b.id)

RECURSIVE SortRecords(_)
SortRecords(records) ==
  IF records = {} THEN <<>>
  ELSE LET first == CHOOSE a \in records :
                      \A b \in records \ {a} : ListedBefore(a, b)
       IN <<first>> \o SortRecords(records \ {first})

\* index.getAll(chatId) alone: the records of the chat by primary key.
RECURSIVE ByPrimaryKey(_)
ByPrimaryKey(records) ==
  IF records = {} THEN <<>>
  ELSE LET first == CHOOSE a \in records :
                      \A b \in records \ {a} : LexLess(a.id, b.id)
       IN <<first>> \o ByPrimaryKey(records \ {first})

\* Mutant: the result of getAll is returned as it comes.
getLocalMessagesUnsorted(store, chatId) ==
  ByPrimaryKey({m \in store : m.chat_id = chatId})

\* Mutant: the whole object store is read, not the chat_id index.
getLocalMessagesAllChats(store, chatId) == SortRecords(store)

\* getLocalMessages: index('chat_id').getAll(chatId), sorted by created_at.
getLocalMessages(store, chatId) ==
  SortRecords({m \in store : m.chat_id = chatId})

\* Mutant: nothing is deleted.
clearLocalMessagesNothing(store) == store

\* clearLocalMessages: objectStore('messages').clear().
clearLocalMessages(store) == {}

\* String.prototype.trim for the texts of the model: spaces and byte order
\* marks at both ends go.
RECURSIVE trim(_)
trim(t) ==
  IF t = <<>> THEN t
  ELSE IF t[1] \in {32, BOM} THEN trim(Tail(t))
  ELSE IF t[Len(t)] \in {32, BOM} THEN trim(SubSeq(t, 1, Len(t) - 1))
  ELSE t

\* Mutant: the answer of the insert is not looked at.
throwIfErrorNever(error) == "store"

\* if (error) throw error: handleSendMessage goes on to store the message
\* only when the insert was answered without an error; otherwise its catch
\* block ends the call.  encryptMessage throwing ends it the same way.
throwIfError(error) == IF error THEN "done" ELSE "store"

\* handleSendMessage up to the answer of the insert.  It returns at once
\* without a selected user, a non-blank text or a session key; the input is
\* disabled until encryptionReady and while a send is loading.
handleSendMessage(d, text) ==
  /\ MayStart(d)
  /\ Len(sendCalls[d]) < SendBudget(d)
  /\ encryptionReady[d] /\ ~Running(sendCalls[d])
  /\ selectedUser[d] # NoUser /\ trim(text) # <<>>
  /\ sharedKeyRef[d] # NoKey
  /\ RandomValues \ drawn # {}
  /\ \E error \in BOOLEAN :
       LET iv == getRandomValues
           encryptedContent == encryptMessage(trim(text), sharedKeyRef[d], iv)
       IN /\ drawn' = drawn \cup {iv}
          /\ IF error
             THEN /\ sendCalls' = [sendCalls EXCEPT ![d] =
                       Append(@, [pc |-> throwIfError(error),
                                  peer |-> selectedUser[d],
                                  content |-> trim(text),
                                  key |-> sharedKeyRef[d], sent |-> FALSE])]
                  /\ UNCHANGED <<remote, nextId>>
             ELSE /\ remote' = Append(remote,
                       [id |-> Uuid(nextId + 1), sender_id |-> d,
                        receiver_id |-> selectedUser[d],
                        content |-> encryptedContent, encrypted |-> TRUE,
                        created_at |-> toISOString(nextId + 1),
                        delivered_at |-> toISOString(nextId + 1)])
                  /\ nextId' = nextId + 1
                  /\ sendCalls' = [sendCalls EXCEPT ![d] =
                       Append(@, [pc |-> throwIfError(error),
                                  peer |-> selectedUser[d],
                                  content |-> trim(text),
                                  key |-> sharedKeyRef[d], sent |-> TRUE])]
  /\ UNCHANGED <<cipherVars, listVars, cronVars, recvVars, keyStore, sharedKeys, directory, localStore,
                 windowVars, initCalls, setupCalls, selections, keysGenerated,
                 harness>>

\* The insert was accepted: the plaintext is stored locally under a new
\* random id and appended to the list.
SendStoreLocally(d, i) ==
  /\ MayStep(d)
  /\ sendCalls[d][i].pc = "store"
  /\ LET localMessage ==
           [id |-> Uuid(nextId + 1), sender_id |-> d,
            receiver_id |-> sendCalls[d][i].peer,
            content |-> sendCalls[d][i].content,
            created_at |-> toISOString(nextId + 1),
            chat_id |-> getChatId(IdOf(d), IdOf(sendCalls[d][i].peer))]
     IN /\ localStore' = [localStore EXCEPT ![d] =
                            storeMessageLocally(@, localMessage)]
        /\ messages' = [messages EXCEPT ![d] = Append(@, localMessage)]
  /\ nextId' = nextId + 1
  /\ sendCalls' = [sendCalls EXCEPT ![d][i].pc = "done"]
  /\ UNCHANGED <<cipherVars, listVars, cronVars, recvVars, drawn, keyStore, sharedKeys, directory, remote,
                 myKeyPairRef, sharedKeyRef, encryptionReady, selectedUser,
                 initCalls, setupCalls, selections, keysGenerated, harness>>

\* loadMessages: getLocalMessages has resolved, the list shown is replaced.
LoadResolve(d, i) ==
  /\ loadCalls[d][i].pc = "get"
  /\ messages' = [messages EXCEPT ![d] =
                    getLocalMessages(localStore[d],
                                     getChatId(IdOf(d),
                                               IdOf(loadCalls[d][i].peer)))]
  /\ loadCalls' = [loadCalls EXCEPT ![d][i].pc = "done"]
  /\ UNCHANGED <<cipherVars, listVars, cronVars, drawn, storeVars, myKeyPairRef,
                 sharedKeyRef, encryptionReady, selectedUser, initCalls,
                 setupCalls, sendCalls, selections, keysGenerated, nextId,
                 harness, channels, events, recvCalls>>

\* ---------------------------------------------------------- receiving ----
\* User 3's client writes plain text; what is written in the name of user 2
\* is a cut-off blob.
ForeignContent(sender) == IF sender = 3 THEN <<7>> ELSE <<26, 6, 5, 44>>

ForeignRows ==
  LET
    \* Row contents that a client other than this application may write: a
    \* text that is not base64 and base64 too short for a nonce and a tag.
    ForeignContents == {<<7>>, <<26, 6, 5, 44>>}
  IN {k \in DOMAIN remote : remote[k].content \in ForeignContents}

\* User 3 publishes a public key with the other client.
ForeignPublish ==
  LET
    \* Profile texts that a client other than this application may write: a
    \* key of another curve and a text that is not JSON.
    MalformedKeys == {<<"P-256", "EC", 4>>, <<"{">>}
  IN
  /\ harness.foreign > 0 /\ MayStart(3)
  /\ directory[3] = NoProfileKey
  /\ \E text \in MalformedKeys : directory' = [directory EXCEPT ![3] = text]
  /\ UNCHANGED <<cipherVars, listVars, cronVars, recvVars, drawn, keyStore, sharedKeys,
                 remote, localStore, windowVars, initCalls, setupCalls,
                 sendCalls, selections, keysGenerated, nextId, harness>>

\* A row for user 1 that this application did not write: inserted by user
\* 3's client, or in the name of user 2 past the application.
ForeignInsert(sender) ==
  /\ Cardinality(ForeignRows) < harness.foreign /\ MayStart(sender)
  /\ remote' = Append(remote,
                        [id |-> Uuid(nextId + 1), sender_id |-> sender,
                         receiver_id |-> 1,
                         content |-> ForeignContent(sender),
                         encrypted |-> TRUE,
                         created_at |-> toISOString(nextId + 1),
                         delivered_at |-> toISOString(nextId + 1)])
  /\ nextId' = nextId + 1
  /\ UNCHANGED <<cipherVars, listVars, cronVars, recvVars, drawn, keyStore, sharedKeys,
                 directory, localStore, windowVars, initCalls, setupCalls,
                 sendCalls, selections, keysGenerated, harness>>

ReceiveBudget(d) == IF d = 1 THEN harness.receives ELSE 0

\* The first row a channel has not been handed yet, 0 when there is none.
NextRow(d, c) ==
  LET waiting == {k \in DOMAIN remote :
                    k > channels[d][c].since /\ <<d, c, k>> \notin events}
  IN IF waiting = {} THEN 0
     ELSE CHOOSE k \in waiting : \A j \in waiting : k <= j

\* Mutant: the catch block keeps the payload as the content.
ReadKeyAndDecryptKeep(d, frame) ==
  IF sharedKeyRef[d] = NoKey
  THEN [frame EXCEPT !.pc = "store", !.raw = TRUE,
                     !.content = remote[frame.row].content]
  ELSE LET decryptedContent ==
             decryptMessage(remote[frame.row].content, sharedKeyRef[d])
       IN [frame EXCEPT !.pc = "store", !.key = sharedKeyRef[d],
                        !.content = IF decryptedContent.ok
                                    THEN decryptedContent.text
                                    ELSE remote[frame.row].content]

\* Mutant: after one failed decryption every later message is dropped.
ReadKeyAndDecryptGiveUp(d, frame) ==
  IF sharedKeyRef[d] = NoKey
  THEN [frame EXCEPT !.pc = "store", !.raw = TRUE,
                     !.content = remote[frame.row].content]
  ELSE LET decryptedContent ==
             decryptMessage(remote[frame.row].content, sharedKeyRef[d])
           failedBefore ==
             \E j \in DOMAIN recvCalls[d] : recvCalls[d][j].outcome = "dropped"
       IN IF decryptedContent.ok /\ ~failedBefore
          THEN [frame EXCEPT !.pc = "store", !.key = sharedKeyRef[d],
                             !.content = decryptedContent.text]
          ELSE [frame EXCEPT !.pc = "done", !.key = sharedKeyRef[d],
                             !.outcome = "dropped"]

\* handleNewMessage from the point where the session key is read: the
\* content is decrypted, or taken as it is when there is no key; a failed
\* decryption is caught and the call ends.
ReadKeyAndDecrypt(d, frame) ==
  IF sharedKeyRef[d] = NoKey
  THEN [frame EXCEPT !.pc = "store", !.raw = TRUE,
                     !.content = remote[frame.row].content]
  ELSE LET decryptedContent ==
             decryptMessage(remote[frame.row].content, sharedKeyRef[d])
       IN IF decryptedContent.ok
          THEN [frame EXCEPT !.pc = "store", !.key = sharedKeyRef[d],
                             !.content = decryptedContent.text]
          ELSE [frame EXCEPT !.pc = "done", !.key = sharedKeyRef[d],
                             !.outcome = "dropped"]

\* handleNewMessage up to its first await: of setupSharedKey when there is
\* no session key, of decryptMessage otherwise.
handleNewMessage(d, p, k) ==
  LET frame == [pc |-> "setup", row |-> k, peer |-> p, setup |-> 0,
                key |-> NoKey, raw |-> FALSE, content |-> <<>>,
                outcome |-> ""]
  IN IF sharedKeyRef[d] = NoKey
     THEN [frame EXCEPT !.setup = Len(setupCalls[d]) + 1]
     ELSE ReadKeyAndDecrypt(d, frame)

\* The callback of subscription c gets the INSERT event of the next row
\* and calls handleNewMessage when the row belongs to the chat with the
\* peer the subscription was made for.
Deliver(d, c) ==
  /\ MayStart(d)
  /\ Len(recvCalls[d]) < ReceiveBudget(d)
  /\ NextRow(d, c) # 0
  /\ LET k == NextRow(d, c)
         p == channels[d][c].peer
         newMsg == remote[k]
     IN /\ events' = events \cup {<<d, c, k>>}
        /\ IF \/ newMsg.sender_id = p /\ newMsg.receiver_id = d
              \/ newMsg.sender_id = d /\ newMsg.receiver_id = p
           THEN /\ recvCalls' = [recvCalls EXCEPT ![d] =
                                   Append(@, handleNewMessage(d, p, k))]
                /\ setupCalls' =
                     IF sharedKeyRef[d] = NoKey
                     THEN [setupCalls EXCEPT ![d] =
                             Append(@, setupSharedKey(d, p))]
                     ELSE setupCalls
           ELSE UNCHANGED <<recvCalls, setupCalls>>
  /\ UNCHANGED <<cipherVars, listVars, cronVars, drawn, storeVars, windowVars,
                 initCalls, sendCalls, selections, keysGenerated, nextId,
                 harness, channels, loadCalls>>

\* The setupSharedKey call handleNewMessage awaited has returned.
RecvResume(d, i) ==
  /\ recvCalls[d][i].pc = "setup"
  /\ setupCalls[d][recvCalls[d][i].setup].pc = "done"
  /\ recvCalls' = [recvCalls EXCEPT ![d][i] = ReadKeyAndDecrypt(d, @)]
  /\ UNCHANGED <<cipherVars, listVars, cronVars, drawn, storeVars, windowVars,
                 initCalls, setupCalls, sendCalls, selections, keysGenerated,
                 nextId, harness, channels, events, loadCalls>>

\* storeMessageLocally has resolved: the record is in the store and is
\* appended to the list shown.
RecvStoreLocally(d, i) ==
  /\ recvCalls[d][i].pc = "store"
  /\ LET message == remote[recvCalls[d][i].row]
         storedMessage ==
           [id |-> message.id, sender_id |-> message.sender_id,
            receiver_id |-> message.receiver_id,
            content |-> recvCalls[d][i].content,
            created_at |-> message.created_at,
            chat_id |-> getChatId(IdOf(message.sender_id),
                                  IdOf(message.receiver_id))]
     IN /\ localStore' = [localStore EXCEPT ![d] =
                            storeMessageLocally(@, storedMessage)]
        /\ messages' = [messages EXCEPT ![d] = Append(@, storedMessage)]
  /\ recvCalls' = [recvCalls EXCEPT ![d][i] =
                     [@ EXCEPT !.pc = "done", !.outcome = "stored"]]
  /\ UNCHANGED <<cipherVars, listVars, cronVars, drawn, keyStore, sharedKeys,
                 directory, remote, myKeyPairRef, sharedKeyRef,
                 encryptionReady, selectedUser, initCalls, setupCalls,
                 sendCalls, selections, keysGenerated, nextId, harness,
                 channels, events, loadCalls>>

\* ------------------------------------------------ store specification ----
\* The calls of the store specification act on the message store of the
\* first device.
MessageIds == {Uuid(1), Uuid(2)}
Peers == {2, 3}

StoredMessages ==
  LET
    \* Times of creation, in milliseconds: within one second and across it.
    Instants == {950, 1100}
  IN
  {[id |-> id, sender_id |-> 1, receiver_id |-> p, content |-> c,
    created_at |-> toISOString(t), chat_id |-> getChatId(IdOf(1), IdOf(p))] :
     id \in MessageIds, p \in Peers, c \in Texts, t \in Instants}

StoreInit ==
  /\ CipherIdle /\ SessionStart /\ harness = StoreScenario

\* One completed call storeMessageLocally(message).
StoreAppend ==
  /\ Len(appended) < MaxAppend
  /\ \E message \in StoredMessages :
       /\ localStore' = [localStore EXCEPT ![1] =
                           storeMessageLocally(@, message)]
       /\ appended' = Append(appended, message)
  /\ listed' = NoList
  /\ UNCHANGED <<cipherVars, cronVars, drawn, keyStore, sharedKeys, directory, remote,
                 windowVars, callVars, cleared, idCalls>>

\* One completed call getLocalMessages(chatId).
StoreList ==
  /\ \E p \in Peers :
       LET chatId == getChatId(IdOf(p), IdOf(1))
       IN listed' = [chatId |-> chatId, called |-> TRUE,
                     result |-> getLocalMessages(localStore[1], chatId)]
  /\ UNCHANGED <<cipherVars, cronVars, drawn, storeVars, windowVars, callVars,
                 appended, cleared, idCalls>>

\* One completed call clearLocalMessages().
StoreClear ==
  /\ localStore' = [localStore EXCEPT ![1] = clearLocalMessages(@)]
  /\ appended' = <<>>
  /\ cleared' = IF localStore[1] = {} THEN "empty" ELSE "records"
  /\ listed' = NoList
  /\ UNCHANGED <<cipherVars, cronVars, drawn, keyStore, sharedKeys, directory, remote,
                 windowVars, callVars, idCalls>>

StoreNext == StoreAppend \/ StoreList \/ StoreClear

SpecStore == StoreInit /\ [][StoreNext]_vars

\* One call getChatId(userId1, userId2), on user ids of the model or on
\* strings that hold the '_' the two ids are joined with.
ChatIdCall ==
  /\ Cardinality(idCalls) < MaxIdCalls
  /\ \E userId1, userId2 \in
         {IdOf(u) : u \in Users} \cup {<<49, 95, 50>>, <<50, 95, 51>>} :
       idCalls' = idCalls \cup {[userId1 |-> userId1, userId2 |-> userId2,
                                 chatId |-> getChatId(userId1, userId2)]}
  /\ UNCHANGED <<cipherVars, cronVars, drawn, storeVars, windowVars, callVars,
                 appended, cleared, listed>>

SpecChatId == StoreInit /\ [][ChatIdCall]_vars

\* ------------------------------------------------------ specification ----
Init ==
  LET
    ChatScenario ==
      [overlap |-> TRUE, inits |-> <<1, 1, 0>>,
       selects |-> <<MaxChatSelect, 1, 0>>, sends |-> <<MaxSend, 1, 0>>,
       receives |-> 0, foreign |-> 0, failures |-> {1}, quiet |-> FALSE,
       rekeys |-> 0]
  IN
  CipherIdle /\ SessionStart /\ harness = ChatScenario

InitKeys == CipherIdle /\ SessionStart /\ harness = KeysScenario

InitKeysSeq ==
  LET
    KeysSeqScenario ==
      [overlap |-> FALSE, inits |-> <<MaxInit, 1, 0>>,
       selects |-> <<MaxSelect, 1, 0>>, sends |-> <<0, 0, 0>>,
       receives |-> 0, foreign |-> 0, failures |-> {}, quiet |-> FALSE,
       rekeys |-> 0]
  IN
  CipherIdle /\ SessionStart /\ harness = KeysSeqScenario

InitReceive ==
  LET
    ReceiveScenario ==
      [overlap |-> TRUE, inits |-> <<1, 1, 0>>,
       selects |-> <<MaxRecvSelect, 1, 0>>, sends |-> <<0, MaxPeerSend, 0>>,
       receives |-> MaxReceive, foreign |-> MaxForeign, failures |-> {},
       quiet |-> TRUE,
       rekeys |-> 0]
  IN
  CipherIdle /\ SessionStart /\ harness = ReceiveScenario

InitStep(d) ==
  \/ initializeEncryption(d)
  \/ \E i \in DOMAIN initCalls[d] :
       \/ InitGetKeyPair(d, i)
       \/ storeKeyPair(d, i)
       \/ InitPublish(d, i)
       \/ InitAssign(d, i)

SetupStep(d) ==
  \/ \E p \in Users : SelectUser(d, p)
  \/ \E i \in DOMAIN setupCalls[d] :
       \/ SetupGetCached(d, i)
       \/ SetupFetch(d, i)
       \/ cacheSharedKey(d, i)
       \/ SetupAssign(d, i)

SendStep(d) ==
  \/ \E text \in Texts : handleSendMessage(d, text)
  \/ \E i \in DOMAIN sendCalls[d] : SendStoreLocally(d, i)

LoadStep(d) == \E i \in DOMAIN loadCalls[d] : LoadResolve(d, i)

ReceiveStep(d) ==
  \/ \E c \in DOMAIN channels[d] : Deliver(d, c)
  \/ \E i \in DOMAIN recvCalls[d] :
       \/ RecvResume(d, i)
       \/ RecvStoreLocally(d, i)

ForeignStep == ForeignPublish \/ \E sender \in {2, 3} : ForeignInsert(sender)

NextKeys == \E d \in Users : InitStep(d) \/ SetupStep(d)

Next ==
  \E d \in Users : InitStep(d) \/ SetupStep(d) \/ SendStep(d) \/ LoadStep(d)

NextReceive ==
  \/ \E d \in Users :
       \/ InitStep(d) \/ SetupStep(d) \/ SendStep(d) \/ LoadStep(d)
       \/ ReceiveStep(d)
  \/ ForeignStep

Spec == Init /\ [][Next]_vars

SpecKeys == InitKeys /\ [][NextKeys]_vars

SpecKeysSeq == InitKeysSeq /\ [][NextKeys]_vars

SpecReceive == InitReceive /\ [][NextReceive]_vars

InitSwitch ==
  LET
    SwitchScenario ==
      [overlap |-> TRUE, inits |-> <<1, 1, 0>>,
       selects |-> <<MaxSwitch, 1, 0>>, sends |-> <<0, 1, 0>>,
       receives |-> 1, foreign |-> 0, failures |-> {}, quiet |-> TRUE,
       rekeys |-> 0]
  IN
  CipherIdle /\ SessionStart /\ harness = SwitchScenario

NextSwitch ==
  \E d \in Users :
    \/ InitStep(d) \/ SetupStep(d) \/ SendStep(d) \/ LoadStep(d)
    \/ ReceiveStep(d)

SpecSwitch == InitSwitch /\ [][NextSwitch]_vars

InitRekey ==
  LET
    RekeyScenario ==
      [overlap |-> TRUE, inits |-> <<1, 1, 0>>,
       selects |-> <<MaxSelect, 0, 0>>, sends |-> <<0, 0, 0>>,
       receives |-> 0, foreign |-> 0, failures |-> {}, quiet |-> FALSE,
       rekeys |-> 1]
  IN
  CipherIdle /\ SessionStart /\ harness = RekeyScenario

NextRekey == NextKeys \/ OtherDeviceInit(2)

SpecRekey == InitRekey /\ [][NextRekey]_vars

\* The first device sends a message and is handed the events of its own
\* insert by the subscriptions it has made; it may come back to a peer it
\* selected before.  User 2 only opens the application.
InitEcho ==
  /\ CipherIdle /\ SessionStart
  /\ harness = [overlap |-> TRUE, inits |-> <<1, 1, 0>>,
                selects |-> <<MaxSelect, 0, 0>>, sends |-> <<1, 0, 0>>,
                receives |-> MaxEcho, foreign |-> 0, failures |-> {},
                quiet |-> TRUE, rekeys |-> 0]

SpecEcho == InitEcho /\ [][NextSwitch]_vars

\* ------------------------------------------------------------ retention ----
\* INTERVAL '5 minutes' and INTERVAL '24 hours', in milliseconds.
FiveMinutes == 300000
TwentyFourHours == 86400000

\* delivered_at of a row that was never marked: the column is nullable and
\* was added to a table that had rows.
NULL == [s |-> -1, ms |-> 0]

\* Mutant: a delivered row is deleted without the grace period.
delete_old_messagesNoGrace(rows, t) ==
  LET Kept(r) == r.delivered_at = NULL
  IN SelectSeq(rows, Kept)

\* delete_old_messages at server time t: what is left of the table.
delete_old_messages(rows, t) ==
  LET Kept(r) == ~(/\ r.delivered_at # NULL
                   /\ getTime(r.delivered_at) < t - FiveMinutes)
  IN SelectSeq(rows, Kept)

\* delete_undelivered_messages at server time t: what is left of the table.
delete_undelivered_messages(rows, t) ==
  LET Kept(r) == ~(/\ r.delivered_at = NULL
                   /\ getTime(r.created_at) < t - TwentyFourHours)
  IN SelectSeq(rows, Kept)

\* The tables the retention functions may find when they are installed.
LegacyTables ==
  LET
    \* The times rows were created and marked at, in milliseconds.
    RowInstants == {0, 1}
    \* The rows the table may hold at place k.
    LegacyRows(k) ==
      {[id |-> Uuid(k), sender_id |-> 2, receiver_id |-> 1,
        content |-> ForeignContent(2), encrypted |-> TRUE,
        created_at |-> toISOString(c), delivered_at |-> m] :
         c \in RowInstants,
         m \in {NULL} \cup {toISOString(t) : t \in RowInstants}}
  IN
  UNION {{rows \in [1..n -> UNION {LegacyRows(k) : k \in 1..n}] :
            \A k \in 1..n : rows[k] \in LegacyRows(k)} : n \in 0..MaxRows}

RetentionInit ==
  /\ cKey = 1 /\ cMsg = <<>> /\ encCalls = <<>> /\ decCall = NoCall
  /\ drawn = {}
  /\ appended = <<>> /\ cleared = "never" /\ listed = NoList
  /\ idCalls = {}
  /\ keyStore = [d \in Users |-> NoPair]
  /\ sharedKeys = [d \in Users |-> [p \in Users |-> NoEntry]]
  /\ directory = [u \in Users |-> NoProfileKey]
  /\ localStore = [d \in Users |-> {}]
  /\ myKeyPairRef = [d \in Users |-> NoPair]
  /\ sharedKeyRef = [d \in Users |-> NoKey]
  /\ encryptionReady = [d \in Users |-> FALSE]
  /\ selectedUser = [d \in Users |-> NoUser]
  /\ messages = [d \in Users |-> <<>>]
  /\ initCalls = [d \in Users |-> <<>>]
  /\ setupCalls = [d \in Users |-> <<>>]
  /\ sendCalls = [d \in Users |-> <<>>]
  /\ selections = [d \in Users |-> 0]
  /\ keysGenerated = 0
  /\ channels = [d \in Users |-> <<>>]
  /\ events = {}
  /\ recvCalls = [d \in Users |-> <<>>]
  /\ loadCalls = [d \in Users |-> <<>>]
  /\ harness = StoreScenario
  /\ remote \in LegacyTables
  /\ nextId = Len(remote)
  /\ now = 0 /\ purged = {}

\* Time passes on the server.
Tick ==
  LET
    \* The times the clock is looked at: the ends of the two intervals, and
    \* one and two milliseconds later.
    CronInstants ==
      {FiveMinutes + d : d \in 0..2} \cup {TwentyFourHours + d : d \in 0..2}
  IN
  /\ \E t \in CronInstants : t > now /\ now' = t
  /\ UNCHANGED <<cipherVars, drawn, storeVars, windowVars, callVars,
                 listVars, purged>>

\* The insert of handleSendMessage arrives: the row is created at the
\* server's time and carries the sender's time as its delivered mark.
RetentionInsert ==
  /\ nextId < MaxRows
  /\ remote' = Append(remote,
                        [id |-> Uuid(nextId + 1), sender_id |-> 2,
                         receiver_id |-> 1, content |-> ForeignContent(2),
                         encrypted |-> TRUE, created_at |-> toISOString(now),
                         delivered_at |-> toISOString(now)])
  /\ nextId' = nextId + 1
  /\ UNCHANGED <<cipherVars, drawn, keyStore, sharedKeys, directory,
                 localStore, windowVars, initCalls, setupCalls, sendCalls,
                 selections, keysGenerated, harness, recvVars, listVars,
                 cronVars>>

\* The rows of the table that a call leaves out, as records of the purge.
Deleted(left, by) ==
  {[row |-> remote[k], at |-> now, by |-> by] :
     k \in {j \in DOMAIN remote :
              \A i \in DOMAIN left : left[i].id # remote[j].id}}

\* cron runs delete_old_messages.
DeleteOld ==
  /\ remote' = delete_old_messages(remote, now)
  /\ purged' = purged \cup Deleted(remote', "delete_old_messages")
  /\ UNCHANGED <<cipherVars, drawn, keyStore, sharedKeys, directory,
                 localStore, windowVars, callVars, listVars, now>>

\* cron runs delete_undelivered_messages.
DeleteUndelivered ==
  /\ remote' = delete_undelivered_messages(remote, now)
  /\ purged' = purged \cup Deleted(remote', "delete_undelivered_messages")
  /\ UNCHANGED <<cipherVars, drawn, keyStore, sharedKeys, directory,
                 localStore, windowVars, callVars, listVars, now>>

RetentionNext == Tick \/ RetentionInsert \/ DeleteOld \/ DeleteUndelivered

SpecRetention == RetentionInit /\ [][RetentionNext]_vars

\* A handler of device d that was awaiting continues: the promise it
\* awaited has settled and the event loop runs the continuation.
Continue(d) ==
  \/ \E i \in DOMAIN initCalls[d] :
       \/ InitGetKeyPair(d, i)
       \/ storeKeyPair(d, i)
       \/ InitPublish(d, i)
       \/ InitAssign(d, i)
  \/ \E i \in DOMAIN setupCalls[d] :
       \/ SetupGetCached(d, i)
       \/ SetupFetch(d, i)
       \/ cacheSharedKey(d, i)
       \/ SetupAssign(d, i)
  \/ \E i \in DOMAIN sendCalls[d] : SendStoreLocally(d, i)
  \/ \E i \in DOMAIN loadCalls[d] : LoadResolve(d, i)

InitLive ==
  LET
    LiveScenario ==
      [overlap |-> TRUE, inits |-> <<1, 1, 0>>,
       selects |-> <<1, 0, 0>>, sends |-> <<1, 0, 0>>,
       receives |-> 0, foreign |-> 0, failures |-> {1}, quiet |-> FALSE,
       rekeys |-> 0]
  IN
  CipherIdle /\ SessionStart /\ harness = LiveScenario

\* The session specification with the event loop running every task that
\* is ready: a handler that can continue does continue.  What the user does
\* (selecting a peer, sending) may or may not happen.
SpecLive ==
  InitLive /\ [][Next]_vars /\ WF_vars(\E d \in Users : Continue(d))

\* ------------------------------------------------------------ claims ----
\* The nonce a blob carries: the twelve bytes decryptMessage will use.
NonceOf(blob) == slice(atob(blob).bytes, 0, IvLen)

\* C1: round trip: decryptMessage(encryptMessage(P, K), K) returns exactly
\* P, for every plaintext P and key K.
C1_RoundTrip ==
  decCall.kind = "same" => decCall.out = [ok |-> TRUE, text |-> cMsg]

\* C2: wrong key: decrypting a blob of encryptMessage(P, K1) under a key
\* K2 # K1 fails with the decryption-failed error and returns no plaintext.
C2_WrongKeyFails ==
  (decCall.kind # "none" /\ decCall.key # cKey
     /\ \E i \in DOMAIN encCalls : encCalls[i].blob = decCall.blob)
  => decCall.out = DecryptionFailed

C2_Witness ==
  /\ decCall.kind = "wrong" /\ decCall.key # cKey /\ cMsg # <<>>
  /\ \E i \in DOMAIN encCalls : encCalls[i].blob = decCall.blob
  /\ decCall.out = DecryptionFailed

\* C3: tampering: a blob of encryptMessage(P, K) with one byte of nonce,
\* ciphertext or tag changed makes decryptMessage under K fail with the
\* decryption-failed error; no plaintext, altered or partial, is returned.
C3_TamperFails ==
  ((decCall.kind # "none" /\ decCall.key = cKey
      /\ \E i \in DOMAIN encCalls :
           LET a == atob(encCalls[i].blob).bytes
               b == atob(decCall.blob).bytes
           IN /\ Len(a) = Len(b)
              /\ Cardinality({p \in 1..Len(a) : a[p] # b[p]}) = 1)
   => decCall.out = DecryptionFailed)

C3_Witness ==
  /\ decCall.kind = "tampered" /\ decCall.key = cKey
  /\ \E i \in DOMAIN encCalls :
       LET a == atob(encCalls[i].blob).bytes
           b == atob(decCall.blob).bytes
       IN \E p \in IvLen + 1..Len(a) - TagLen :
            a[p] # b[p] /\ \A q \in 1..Len(a) : q # p => a[q] = b[q]
  /\ decCall.out = DecryptionFailed

\* C4: nonce uniqueness: no two encryptMessage calls under the same key
\* use the same 96-bit nonce, and two calls with identical plaintext and
\* key return different blobs.
C4_NonceUnique ==
  \A i, j \in DOMAIN encCalls :
    i # j => /\ NonceOf(encCalls[i].blob) # NonceOf(encCalls[j].blob)
             /\ encCalls[i].blob # encCalls[j].blob

C4_Witness ==
  /\ Len(encCalls) >= 2
  /\ NonceOf(encCalls[1].blob) = encCalls[1].iv
  /\ NonceOf(encCalls[2].blob) = encCalls[2].iv
  /\ encCalls[1].blob # encCalls[2].blob

\* Calls of initializeEncryption and setupSharedKey that have ended.
Ended(calls) == {i \in DOMAIN calls : calls[i].pc = "done"}

\* C5: key agreement is symmetric: deriveSharedKey(privA, pubB) and
\* deriveSharedKey(privB, pubA) are the same key, and once users 1 and 2
\* have each run initializeEncryption and setupSharedKey for the other,
\* their two session secrets are identical.
C5_KeyAgreementSymmetric ==
  /\ \A a, b \in Users :
       (keyStore[a] # NoPair /\ keyStore[b] # NoPair)
       => deriveSharedKey(keyStore[a].privateKey, keyStore[b].publicKey)
          = deriveSharedKey(keyStore[b].privateKey, keyStore[a].publicKey)
  /\ (sharedKeyRef[1] # NoKey /\ sharedKeyRef[2] # NoKey)
     => /\ sharedKeyRef[1] = sharedKeyRef[2]
        /\ importKey(sharedKeys[1][2]) = importKey(sharedKeys[2][1])

C5_Witness ==
  /\ selectedUser[1] = 2 /\ selectedUser[2] = 1
  /\ \E i \in Ended(setupCalls[1]), j \in Ended(setupCalls[2]) :
       /\ setupCalls[1][i].derived /\ setupCalls[2][j].derived
       /\ setupCalls[1][i].sharedKey = setupCalls[2][j].sharedKey
  /\ sharedKeyRef[1] # NoKey /\ sharedKeyRef[1] = sharedKeyRef[2]

\* C6: two initializeEncryption calls in sequence on one device yield the
\* same key material: the second generates nothing and takes the pair the
\* first persisted.
C6_EnsureTwiceSamePair ==
  \A i, j \in DOMAIN initCalls[1] :
    (i < j /\ j \in Ended(initCalls[1]))
    => /\ ~initCalls[1][j].generated
       /\ initCalls[1][j].ok
       /\ initCalls[1][j].keyPair = initCalls[1][i].keyPair
       /\ initCalls[1][j].keyPair = keyStore[1]
       /\ myKeyPairRef[1] = initCalls[1][i].keyPair

C6_Witness ==
  /\ Len(initCalls[1]) = 2 /\ Ended(initCalls[1]) = {1, 2}
  /\ initCalls[1][1].generated /\ ~initCalls[1][2].generated
  /\ initCalls[1][1].keyPair # NoPair
  /\ initCalls[1][2].keyPair = initCalls[1][1].keyPair

\* C7: under any interleaving of initializeEncryption calls on one device
\* at most one key pair is ever persisted: a stored pair is never
\* overwritten by another, and every call ends with that same pair.
C7_SinglePairPersisted ==
  LET
    \* The initializeEncryption calls on device d whose storeKeyPair committed.
    Persisted(d) ==
      {i \in DOMAIN initCalls[d] :
         initCalls[d][i].generated
         /\ initCalls[d][i].pc \in {"publish", "assign", "done"}}
  IN
  /\ \A i, j \in Persisted(1) :
       initCalls[1][i].keyPair = initCalls[1][j].keyPair
  /\ \A i \in Ended(initCalls[1]) :
       initCalls[1][i].ok => initCalls[1][i].keyPair = keyStore[1]

\* The setupSharedKey calls on device d for peer p that called
\* deriveSharedKey.
Derivations(d, p) ==
  {i \in DOMAIN setupCalls[d] :
     setupCalls[d][i].peer = p /\ setupCalls[d][i].derived}

\* C8: setupSharedKey twice in sequence for the same peer: the second run
\* ends with the key the first cached, deriveSharedKey is called at most
\* once for the peer, and with a cache entry the directory is not asked.
C8_SequentialGetOrDerive ==
  \A p \in Users :
    /\ Cardinality(Derivations(1, p)) <= 1
    /\ \A i, j \in Ended(setupCalls[1]) :
         (i < j /\ setupCalls[1][i].peer = p /\ setupCalls[1][j].peer = p
            /\ setupCalls[1][i].result \in {"derived", "cached"})
         => /\ setupCalls[1][j].result = "cached"
            /\ ~setupCalls[1][j].queried /\ ~setupCalls[1][j].derived
            /\ setupCalls[1][j].sharedKey = setupCalls[1][i].sharedKey
            /\ setupCalls[1][j].sharedKey = importKey(sharedKeys[1][p])

C8_Witness ==
  \E i, j \in Ended(setupCalls[1]) :
    /\ i < j /\ setupCalls[1][i].peer = 2 /\ setupCalls[1][j].peer = 2
    /\ setupCalls[1][i].result = "derived"
    /\ setupCalls[1][j].result = "cached"
    /\ setupCalls[1][j].sharedKey = setupCalls[1][i].sharedKey
    /\ setupCalls[1][j].sharedKey # NoKey

\* C9: overlapping setupSharedKey calls for one peer are serialized:
\* deriveSharedKey runs at most once for the peer and the second caller
\* ends with the entry the first cached.
C9_DerivationSerialized ==
  \A p \in Users :
    /\ Cardinality(Derivations(1, p)) <= 1
    /\ \A i \in Ended(setupCalls[1]) :
         (setupCalls[1][i].peer = p /\ setupCalls[1][i].sharedKey # NoKey)
         => setupCalls[1][i].sharedKey = importKey(sharedKeys[1][p])

\* C10: a peer without a published public key and without a cached secret:
\* setupSharedKey ends without a secret, without a cache entry and without
\* an error, and nothing is sent to that peer.
C10_NoPeerKeyNoSend ==
  /\ \A d \in Users : \A i \in Ended(setupCalls[d]) :
       setupCalls[d][i].result = "nopeerkey"
       => /\ setupCalls[d][i].sharedKey = NoKey
          /\ ~setupCalls[d][i].derived
  /\ \A p \in Users :
       directory[p] = NoProfileKey
       => /\ \A d \in Users : sharedKeys[d][p] = NoEntry
          /\ \A k \in DOMAIN remote : remote[k].receiver_id # p

\* ----------------------------------------------------- storage claims ----
\* C12: the conversation identifier does not depend on the order of the two
\* identifiers: getChatId(a, b) = getChatId(b, a).
C12_ChatIdSymmetric ==
  LET
    Identifiers ==
      {IdOf(u) : u \in Users} \cup {<<49, 95>>, <<95>>, <<49, 50>>, <<>>}
  IN
  /\ \A a, b \in Identifiers : getChatId(a, b) = getChatId(b, a)
  /\ \A k \in DOMAIN appended :
       appended[k].chat_id = getChatId(IdOf(appended[k].receiver_id),
                                       IdOf(appended[k].sender_id))

C12_Witness ==
  \E k \in DOMAIN appended :
    /\ appended[k].receiver_id = 3
    /\ appended[k].chat_id = getChatId(IdOf(3), IdOf(1))
    /\ appended[k].chat_id # IdOf(3) \o <<95>> \o IdOf(1)

\* The ids put since the last clear, and the version of an id put last.
AppendedIds == {appended[k].id : k \in DOMAIN appended}

Latest(id) ==
  LET last == CHOOSE k \in DOMAIN appended :
                /\ appended[k].id = id
                /\ \A j \in DOMAIN appended : appended[j].id = id => j <= k
  IN appended[last]

\* C13: storeMessageLocally is an upsert by message id: the store holds one
\* record per id, the one put last; putting a record again changes nothing.
C13_UpsertById ==
  /\ \A id \in MessageIds :
       Cardinality({m \in localStore[1] : m.id = id}) <= 1
  /\ localStore[1] = {Latest(id) : id \in AppendedIds}

C13_Witness ==
  /\ Len(appended) = 2
  /\ appended[1].id = appended[2].id
  /\ appended[1].content # appended[2].content
  /\ localStore[1] = {appended[2]}

\* C14: getLocalMessages returns the messages of the conversation ascending
\* by created_at, in whatever order they were put.
C14_ListSortedByTime ==
  listed.called
  => \A i, j \in DOMAIN listed.result :
       i < j => getTime(listed.result[i].created_at)
                  <= getTime(listed.result[j].created_at)

C14_Witness ==
  /\ Len(appended) = 2 /\ listed.called
  /\ getTime(appended[1].created_at) > getTime(appended[2].created_at)
  /\ LexLess(appended[1].id, appended[2].id)
  /\ listed.result = <<appended[2], appended[1]>>

\* C15: two messages of one conversation with equal created_at are listed
\* in the order in which they were put into the store.
C15_TieByInsertionOrder ==
  LET
    \* The position of the only put of an id, 0 when it was put more than once.
    PutOnceAt(id) ==
      LET at == {k \in DOMAIN appended : appended[k].id = id}
      IN IF Cardinality(at) = 1 THEN CHOOSE k \in at : TRUE ELSE 0
  IN
  listed.called
  => \A i, j \in DOMAIN listed.result :
       (/\ i < j
        /\ listed.result[i].created_at = listed.result[j].created_at
        /\ PutOnceAt(listed.result[i].id) > 0
        /\ PutOnceAt(listed.result[j].id) > 0)
       => PutOnceAt(listed.result[i].id) < PutOnceAt(listed.result[j].id)

\* C16: read your writes: getLocalMessages(c) returns the latest version of
\* every message put whose chat_id is c, and nothing else.
C16_ReadYourWrites ==
  listed.called
  => /\ {listed.result[i] : i \in DOMAIN listed.result}
          = {m \in {Latest(id) : id \in AppendedIds} :
               m.chat_id = listed.chatId}
     /\ \A i, j \in DOMAIN listed.result :
          i # j => listed.result[i].id # listed.result[j].id

C16_Witness ==
  /\ listed.called /\ Len(appended) = 3
  /\ appended[1].id = appended[3].id /\ appended[1] # appended[3]
  /\ appended[2].chat_id # listed.chatId
  /\ appended[3].chat_id = listed.chatId
  /\ listed.result = <<appended[3]>>

\* C17: after clearLocalMessages getLocalMessages returns nothing for any
\* conversation, until a message is put again.
C17_ClearEmptiesAll ==
  (cleared # "never" /\ appended = <<>>)
  => /\ localStore[1] = {}
     /\ listed.called => listed.result = <<>>

C17_Witness ==
  /\ cleared = "records" /\ appended = <<>>
  /\ listed.called /\ listed.result = <<>>

\* ----------------------------------------------------- receive claims ----
\* The payload does not decrypt under the key: it is not base64, or the
\* tag does not verify.
Undecryptable(content, key) ==
  \/ ~atob(content).ok
  \/ ~AesGcmDecrypt(key, slice(atob(content).bytes, 0, IvLen),
                    slice(atob(content).bytes, IvLen,
                          Len(atob(content).bytes))).ok

\* The handleNewMessage calls on the first device that tried to decrypt.
Decrypting ==
  {i \in DOMAIN recvCalls[1] :
     recvCalls[1][i].pc # "setup" /\ recvCalls[1][i].key # NoKey}

\* C18: a received payload whose decryption fails is dropped: the call
\* ends without a content, nothing is written to the local store for the
\* message, it is not added to the list shown, and its payload is nowhere
\* kept as if it were plaintext.
C18_FailedDecryptDropped ==
  LET
    \* Another handleNewMessage call got the same row and kept it.
    KeptByAnotherCall(i) ==
      \E j \in DOMAIN recvCalls[1] \ {i} :
        /\ recvCalls[1][j].row = recvCalls[1][i].row
        /\ recvCalls[1][j].pc = "store" \/ recvCalls[1][j].outcome = "stored"
  IN
  \A i \in Decrypting :
    LET call == recvCalls[1][i]
        message == remote[call.row]
    IN Undecryptable(message.content, call.key)
       => /\ call.pc = "done" /\ call.outcome = "dropped"
          /\ call.content = <<>> /\ ~call.raw
          /\ ~KeptByAnotherCall(i)
             => /\ \A m \in localStore[1] :
                     m.id # message.id /\ m.content # message.content
                /\ \A j \in DOMAIN messages[1] :
                     /\ messages[1][j].id # message.id
                     /\ messages[1][j].content # message.content

C18_Witness ==
  \E i \in Decrypting :
    /\ Undecryptable(remote[recvCalls[1][i].row].content, recvCalls[1][i].key)
    /\ recvCalls[1][i].outcome = "dropped"
    /\ remote[recvCalls[1][i].row].sender_id = selectedUser[1]

\* C19: a failed decryption neither ends the session nor changes its keys:
\* the step that fails leaves the session ready and the key pair, the
\* session key and the cached keys as they were, and every received
\* message that decrypts under the session key is stored and shown, also
\* after another one failed.
C19_FailureDoesNotEndSession ==
  /\ [][LET \* The step ends a handleNewMessage call of the first device in
            \* a failed decryption.
            DecryptionFails ==
              \E i \in DOMAIN recvCalls'[1] :
                /\ recvCalls'[1][i].outcome = "dropped"
                /\ i \in DOMAIN recvCalls[1]
                   => recvCalls[1][i].outcome # "dropped"
            \* The step that stores a decrypted message adds it to the list
            \* shown.
            DecryptedShown ==
              \A i \in DOMAIN recvCalls[1] :
                (/\ recvCalls[1][i].outcome # "stored"
                 /\ recvCalls'[1][i].outcome = "stored")
                => /\ Len(messages'[1]) = Len(messages[1]) + 1
                   /\ messages'[1][Len(messages'[1])].id
                        = remote[recvCalls[1][i].row].id
                   /\ messages'[1][Len(messages'[1])].content
                        = recvCalls[1][i].content
        IN /\ DecryptionFails
              => /\ encryptionReady'[1]
                 /\ UNCHANGED <<encryptionReady, myKeyPairRef, sharedKeyRef,
                                keyStore, sharedKeys>>
           /\ DecryptedShown]_vars
  \* Every received message that decrypted under the session key is stored.
  /\ [](\A i \in Decrypting :
          LET call == recvCalls[1][i]
              message == remote[call.row]
          IN (~Undecryptable(message.content, call.key) /\ call.pc = "done")
             => /\ call.outcome = "stored"
                /\ \E m \in localStore[1] :
                     m.id = message.id /\ m.content = call.content)

C19_Witness ==
  \E i, j \in Decrypting :
    /\ i < j
    /\ recvCalls[1][i].outcome = "dropped"
    /\ recvCalls[1][j].outcome = "stored"
    /\ recvCalls[1][j].key = recvCalls[1][i].key
    /\ \E k \in DOMAIN messages[1] :
         messages[1][k].id = remote[recvCalls[1][j].row].id

\* C11: key agreement fails closed: with a malformed public key published
\* by the peer, setupSharedKey ends in failure, caches nothing and sets no
\* session secret for that peer, and no message of that peer's
\* conversation is sent in plaintext or stored as if decrypted.
C11_MalformedKeyFailsClosed ==
  LET
    \* The profile text is a public key this application cannot use.
    Malformed(text) ==
      /\ text # NoProfileKey
      /\ ~IsJson(text) \/ ~Importable(parse(text))
  IN
  \A p \in Users :
    Malformed(directory[p])
    => /\ sharedKeys[1][p] = NoEntry
       /\ \A i \in Ended(setupCalls[1]) :
            setupCalls[1][i].peer = p
            => /\ setupCalls[1][i].result \in {"keyerror", "error",
                                               "nopeerkey", "missing"}
               /\ setupCalls[1][i].sharedKey = NoKey
       /\ \A k \in DOMAIN remote :
            (remote[k].sender_id = 1 /\ remote[k].receiver_id = p)
            => remote[k].encrypted /\ atob(remote[k].content).ok
       /\ \A i \in DOMAIN recvCalls[1] :
            (/\ recvCalls[1][i].peer = p
             /\ recvCalls[1][i].pc \in {"store", "done"}
             /\ recvCalls[1][i].setup # 0
             /\ setupCalls[1][recvCalls[1][i].setup].result = "keyerror")
            => ~recvCalls[1][i].raw

\* C20: when key-pair generation or the persistence of the pair fails in
\* initializeEncryption, the failure is reported, the session never becomes
\* ready, no key pair is kept in memory, and nothing is encrypted or sent.
C20_InitFailureBlocksSession ==
  \A d \in Users : \A i \in DOMAIN initCalls[d] :
    initCalls[d][i].failure \in {"generate", "store", "abort"}
    => /\ initCalls[d][i].pc = "done" /\ ~initCalls[d][i].ok
       /\ ~encryptionReady[d] /\ myKeyPairRef[d] = NoPair
       /\ sendCalls[d] = <<>>
       /\ \A k \in DOMAIN remote : remote[k].sender_id # d

\* C24: on receive a message is stored only after decryption: the content
\* handleNewMessage stores is what decryptMessage returned for the payload
\* under a session key, never the payload as it came.
C24_StoredAfterDecryption ==
  LET
    \* The handleNewMessage calls on the first device that keep their message:
    \* they are about to store it or have stored it.
    Keeping ==
      {i \in DOMAIN recvCalls[1] :
         recvCalls[1][i].pc = "store" \/ recvCalls[1][i].outcome = "stored"}
  IN
  \A i \in Keeping :
    LET call == recvCalls[1][i]
        payload == remote[call.row].content
    IN /\ ~call.raw /\ call.key # NoKey
       /\ decryptMessage(payload, call.key).ok
       /\ call.content = decryptMessage(payload, call.key).text

\* C25: a device has a cache entry for peer P only after a key agreement
\* with P succeeded: P has published a key that imports, a setupSharedKey
\* call derived the shared key from it, and the entry is that key.
C25_EntryOnlyAfterAgreement ==
  LET
    \* The setupSharedKey calls of device d that agreed on a key with peer p:
    \* deriveSharedKey has returned a key and cacheSharedKey has been called.
    Agreed(d, p) ==
      {i \in DOMAIN setupCalls[d] :
         /\ setupCalls[d][i].peer = p /\ setupCalls[d][i].derived
         /\ setupCalls[d][i].pc \in {"assign", "done"}
         /\ setupCalls[d][i].sharedKey # NoKey}
  IN
  \A d, p \in Users :
    sharedKeys[d][p] # NoEntry
    => /\ directory[p] # NoProfileKey /\ IsJson(directory[p])
       /\ Importable(parse(directory[p]))
       /\ \E i \in Agreed(d, p) :
            /\ setupCalls[d][i].sharedKey =
                 deriveSharedKey(myKeyPairRef[d].privateKey,
                                 parse(directory[p]))
            /\ sharedKeys[d][p] = exportKey(setupCalls[d][i].sharedKey)

C25_Witness ==
  /\ \E p \in Users : sharedKeys[1][p] # NoEntry
  /\ \E d \in Users : \E i \in Ended(setupCalls[d]) :
       setupCalls[d][i].queried /\ setupCalls[d][i].sharedKey = NoKey

\* ---------------------------------------------------- transport claims ----
\* The handleSendMessage calls of user u whose insert was accepted.
Sent(u) == {i \in DOMAIN sendCalls[u] : sendCalls[u][i].sent}

\* The content is the ciphertext of the text under the key: base64 of a
\* nonce getRandomValues returned, followed by bytes that decrypt under
\* the key with that nonce to the text.
IsCiphertextOf(content, text, key) ==
  LET combined == atob(content)
  IN /\ combined.ok
     /\ slice(combined.bytes, 0, IvLen) \in drawn
     /\ Len(combined.bytes) = IvLen + Len(TextEncode(text)) + TagLen
     /\ decryptMessage(content, key) = [ok |-> TRUE, text |-> text]

\* C27: the transport only sees ciphertext: the content of every row
\* handleSendMessage has inserted is the encryption of the text typed under
\* the session key of the call, and is not that text, plain or encoded.
C27_TransportSeesCiphertext ==
  \A k \in DOMAIN remote :
    /\ remote[k].encrypted
    /\ \E i \in Sent(remote[k].sender_id) :
         LET call == sendCalls[remote[k].sender_id][i]
         IN /\ call.peer = remote[k].receiver_id /\ call.key # NoKey
            /\ IsCiphertextOf(remote[k].content, call.content, call.key)
    /\ \A text \in Texts :
         /\ remote[k].content # text
         /\ remote[k].content # btoa(TextEncode(text))

C27_Witness ==
  \E k \in DOMAIN remote :
    /\ remote[k].sender_id = 1
    /\ \E i \in Sent(1) :
         IsCiphertextOf(remote[k].content, sendCalls[1][i].content,
                        sendCalls[1][i].key)

SharedSecrets ==
  {importKey(sharedKeys[d][p]) : d \in Users, p \in Users} \ {NoKey}

\* C28: the private key and the shared keys never leave the device: what
\* a profile carries is the public half of a generated pair, its point and
\* not its private scalar, and a row of the messages table carries the
\* encrypted text and no key.
C28_OnlyPublicHalfLeaves ==
  LET
    \* What a row of the messages table is made of.
    Columns ==
      {"id", "sender_id", "receiver_id", "content", "encrypted", "created_at",
       "delivered_at"}
  IN
  LET
    \* The private scalars and the shared keys the devices hold.
    PrivateScalars == {Scalar(n) : n \in 1..keysGenerated}
  IN
  /\ \A u \in Users :
       directory[u] # NoProfileKey
       => \E n \in 1..keysGenerated :
            /\ directory[u] = <<"P-384", "EC", Pow(DhG, Scalar(n))>>
            /\ parse(directory[u]) = generateKeyPair(n).publicKey
            /\ parse(directory[u]).x # generateKeyPair(n).privateKey.d
            /\ DOMAIN parse(directory[u]) = {"kty", "crv", "x"}
  /\ \A k \in DOMAIN remote :
       /\ DOMAIN remote[k] = Columns
       /\ \E i \in Sent(remote[k].sender_id) :
            LET call == sendCalls[remote[k].sender_id][i]
            IN Len(atob(remote[k].content).bytes)
                 = IvLen + Len(TextEncode(call.content)) + TagLen
       /\ \A s \in PrivateScalars \cup SharedSecrets :
            remote[k].content \notin {<<s>>, btoa(<<s>>)}

C28_Witness ==
  /\ directory[1] # NoProfileKey /\ myKeyPairRef[1] # NoPair
  /\ SharedSecrets # {}
  /\ \E k \in DOMAIN remote : remote[k].sender_id = 1

\* C30: every message is encrypted with the shared key established for
\* its receiver: the key handleSendMessage takes from sharedKeyRef is the
\* key cached for the peer selected, whatever peers were selected before.
C30_SendKeyIsPeersKey ==
  \A d \in Users : \A i \in DOMAIN sendCalls[d] :
    /\ sharedKeys[d][sendCalls[d][i].peer] # NoEntry
    /\ sendCalls[d][i].key = importKey(sharedKeys[d][sendCalls[d][i].peer])

\* ------------------------------------------------------ session claims ----
\* The stage of device d's session with peer p: "Uninitialized" without a
\* key pair in memory, "KeysReady" with one, "SecretReady" with a shared
\* key cached for p.
Stage(d, p) ==
  IF myKeyPairRef[d] = NoPair THEN "Uninitialized"
  ELSE IF sharedKeys[d][p] = NoEntry THEN "KeysReady"
  ELSE "SecretReady"

\* C23: the session with a peer only moves forward, from Uninitialized to
\* KeysReady to SecretReady to Active: no shared key is looked up or
\* derived before the key pair is loaded, the cipher is not used before a
\* shared key for the peer is established, and no step leads back.
C23_SessionMovesForward ==
  \* A setupSharedKey call looks for a cached key or derives one only with
  \* the key pair loaded.
  /\ [](\A d \in Users : \A i \in DOMAIN setupCalls[d] :
          (\/ setupCalls[d][i].pc \in {"cache", "fetch", "put", "assign"}
           \/ setupCalls[d][i].queried \/ setupCalls[d][i].derived
           \/ setupCalls[d][i].sharedKey # NoKey)
          => Stage(d, setupCalls[d][i].peer) # "Uninitialized")
  \* encryptMessage runs for a peer only with a shared key established for
  \* that peer.
  /\ [](\A d \in Users : \A i \in DOMAIN sendCalls[d] :
          Stage(d, sendCalls[d][i].peer) = "SecretReady")
  \* No step takes the key pair or the readiness of a session away, or
  \* removes a cached key.
  /\ [][\A d \in Users :
          /\ myKeyPairRef[d] # NoPair => myKeyPairRef'[d] # NoPair
          /\ encryptionReady[d] => encryptionReady'[d]
          /\ \A p \in Users :
               sharedKeys[d][p] # NoEntry => sharedKeys'[d][p] # NoEntry]_vars

\* ---------------------------------------------------- termination claims ----
\* A call on device d awaits the promise of a store operation: storeKeyPair,
\* cacheSharedKey or storeMessageLocally.
StorePending(d) ==
  \/ \E i \in DOMAIN initCalls[d] : initCalls[d][i].pc \in {"store", "hung"}
  \/ \E i \in DOMAIN setupCalls[d] : setupCalls[d][i].pc = "put"
  \/ \E i \in DOMAIN sendCalls[d] : sendCalls[d][i].pc = "store"

\* C21: no store operation blocks for ever: whenever calls await store
\* operations, a state follows in which every one of them has settled,
\* whether its transaction completed, failed or was aborted, and every
\* write that did not commit has been reported as a rejection.
C21_StoreOperationsSettle ==
  (\E d \in Users :
     \/ StorePending(d)
     \* a write on device d did not commit
     \/ \E i \in DOMAIN initCalls[d] :
          initCalls[d][i].failure \in {"store", "abort"})
  ~> (\A d \in Users :
        /\ ~StorePending(d)
        \* the call that awaited a write that did not commit got a
        \* rejection and has ended
        /\ \A i \in DOMAIN initCalls[d] :
             initCalls[d][i].failure \in {"store", "abort"}
             => initCalls[d][i].pc = "done")

\* ----------------------------------------------------- filtering claims ----
\* C22: events are filtered to the active conversation: whenever
\* handleNewMessage is called on the first device, the row it is called
\* with belongs to the conversation with the peer selected at that time.
\* Stated for the rows inserted after that peer was selected, which leaves
\* out the events on their way while the user switches.
C22_FilteredToActivePair ==
  [][LET \* The row is one of the conversation of user u with peer p.
         OfConversation(row, u, p) ==
           \/ row.sender_id = p /\ row.receiver_id = u
           \/ row.sender_id = u /\ row.receiver_id = p
         \* The row was inserted after the first device made its latest
         \* selection.
         InsertedSinceSelection(k) ==
           channels[1] # <<>> /\ k > channels[1][Len(channels[1])].since
     IN \A i \in DOMAIN recvCalls'[1] \ DOMAIN recvCalls[1] :
          InsertedSinceSelection(recvCalls'[1][i].row)
          => OfConversation(remote[recvCalls'[1][i].row], 1, selectedUser[1])
    ]_vars

\* ---------------------------------------------------------- cache claims ----
\* C26: a cache entry is immutable once created: no step changes the value
\* cached for a peer, however the setupSharedKey calls interleave and
\* whatever the peer publishes in between.
C26_EntryImmutable ==
  [][\A d \in Users : \A p \in Users :
       sharedKeys[d][p] # NoEntry => sharedKeys'[d][p] = sharedKeys[d][p]
    ]_vars

\* ------------------------------------------------------ retention claims ----
\* C29: the retention functions delete a row only when it is marked
\* delivered and the mark is more than five minutes old
\* (delete_old_messages), or when it was never marked and was created more
\* than 24 hours ago (delete_undelivered_messages); every other row stays.
C29_DeletedOnlyWhenExpired ==
  /\ \A e \in purged :
       \/ /\ e.by = "delete_old_messages"
          /\ e.row.delivered_at # NULL
          /\ getTime(e.row.delivered_at) + FiveMinutes < e.at
       \/ /\ e.by = "delete_undelivered_messages"
          /\ e.row.delivered_at = NULL
          /\ getTime(e.row.created_at) + TwentyFourHours < e.at
  /\ \A k \in 1..nextId :
       \/ \E j \in DOMAIN remote : remote[j].id = Uuid(k)
       \/ \E e \in purged : e.row.id = Uuid(k)

C29_Witness ==
  /\ \E e \in purged : e.by = "delete_old_messages"
  /\ \E e \in purged : e.by = "delete_undelivered_messages"
  /\ \E j \in DOMAIN remote :
       /\ remote[j].delivered_at # NULL
       /\ getTime(remote[j].delivered_at) + FiveMinutes >= now

\* ---------------------------------------------------- publication claims ----
\* C31: whenever a key pair is stored on a device and its session is marked
\* ready, the profile of the user carries the public half of that very
\* pair.  Stated for the devices with no initializeEncryption call under
\* way, whose publication is not merely still to come.
C31_PublishedIsPersisted ==
  \A d \in Users :
    (keyStore[d] # NoPair /\ encryptionReady[d] /\ ~Running(initCalls[d]))
    => directory[d] = stringify(keyStore[d].publicKey)

\* C32: once initializeEncryption has succeeded on the first device and the
\* peer it has selected has published a key of this application, the
\* session gets its shared key, in whatever order the two happened, with no
\* further selection and no message arriving.  A profile query that was
\* answered with an error or found no key yet is left out.
C32_SessionBecomesActive ==
  (/\ encryptionReady[1] /\ selectedUser[1] = 2
   /\ keyStore[2] # NoPair
   /\ directory[2] = stringify(keyStore[2].publicKey))
  ~> (\/ sharedKeyRef[1] # NoKey
      \/ \E i \in DOMAIN setupCalls[1] :
           setupCalls[1][i].result \in {"error", "nopeerkey", "keyerror"})

\* ---------------------------------------------------------- echo claims ----
\* C33: each message a device has sent is one record in its local store:
\* the store never holds more records of the device's own messages than
\* the device has sent messages, and holds one for every send that is over.
C33_OneRecordPerSentMessage ==
  \A d \in Users :
    LET own == {m \in localStore[d] : m.sender_id = d}
        accepted == {i \in DOMAIN sendCalls[d] : sendCalls[d][i].sent}
        over == {i \in accepted : sendCalls[d][i].pc = "done"}
    IN /\ Cardinality(own) <= Cardinality(accepted)
       /\ Cardinality(over) <= Cardinality(own)

\* C34: the list shown holds only messages of the conversation with the
\* selected peer.  Stated for the devices with no loadMessages call under
\* way, whose list is not merely still to be replaced.
C34_ListOfActiveConversation ==
  \A d \in Users :
    (selectedUser[d] # NoUser /\ ~Running(loadCalls[d]))
    => \A j \in DOMAIN messages[d] :
         messages[d][j].chat_id = getChatId(IdOf(d), IdOf(selectedUser[d]))

\* C35: no message id appears twice in the list shown.
C35_NoDuplicateIds ==
  \A d \in Users : \A i, j \in DOMAIN messages[d] :
    i # j => messages[d][i].id # messages[d][j].id

\* C36: a session has at most one realtime subscription at any time: the
\* channel made for a selection is gone when the next one is made.
C36_OneSubscription ==
  \A d \in Users : Len(channels[d]) <= 1

\* C37: the shared key a device has cached for a peer is the key agreement
\* of the device's private key with the public key the peer's profile
\* carries now, so that two users who each hold a key for the other hold
\* the same key.
C37_CachedKeyIsCurrentAgreement ==
  /\ \A d, p \in Users :
       sharedKeys[d][p] # NoEntry
       => importKey(sharedKeys[d][p])
            = deriveSharedKey(keyStore[d].privateKey, parse(directory[p]))
  /\ \A d, p \in Users :
       (sharedKeys[d][p] # NoEntry /\ sharedKeys[p][d] # NoEntry)
       => sharedKeys[d][p] = sharedKeys[p][d]

C39_StoredOnlyAfterAccepted ==
  \A d \in Users :
    LET accepted == {i \in DOMAIN sendCalls[d] :
                       sendCalls[d][i].sent /\ sendCalls[d][i].pc = "done"}
    IN /\ Cardinality(localStore[d]) = Cardinality(accepted)
       /\ \A m \in localStore[d] :
            \E i \in accepted :
              /\ m.sender_id = d
              /\ m.receiver_id = sendCalls[d][i].peer
              /\ m.content = sendCalls[d][i].content
       /\ \A j \in DOMAIN messages[d] : messages[d][j] \in localStore[d]

C39_Witness ==
  \E i, j \in DOMAIN sendCalls[1] :
    /\ ~sendCalls[1][i].sent /\ sendCalls[1][i].pc = "done"
    /\ sendCalls[1][j].sent /\ sendCalls[1][j].pc = "done"
    /\ Cardinality(localStore[1]) = 1
    /\ Len(messages[1]) = 1

====
